---- MODULE Spec2Model ----
(***************************************************************************)
(* A model of the SCALE codec extension of qjs-sys                         *)
(* (qjs-extensions/src/scale2): the type registry with alias and generic   *)
(* resolution, and the value encoder and decoder that walk resolved type   *)
(* shapes.                                                                 *)
(*                                                                         *)
(* Representation.  Rust enums are tuples whose first element is the       *)
(* variant name; Option<T> is a sequence of length at most one; Vec<T> is  *)
(* a sequence; BTreeMap<K,V> is a function on the set of keys present.     *)
(* Vec indices are 0-based in the source, so types.get(ind) is             *)
(* types[ind + 1] here.                                                    *)
(***************************************************************************)
EXTENDS Integers, Sequences, FiniteSets, TLC

VARIABLES heap, ret

vars == <<heap, ret>>

\* ------------------------------------------------------------------ bounds

\* Registries (Rc<RefCell<Registry>>) the script creates.
MaxRegs == 2
\* Type definitions held by all registries together.
MaxDefs == 3
\* Iterations of the alias loop of get_type followed before the model gives
\* up on a chain that keeps producing new shapes.
MaxChase == 8
\* Nested decode_valude calls the stack holds.
MaxDepth == 6
\* Bytes of an encoding the scripts keep when they cut it short.
MaxCut == 7

\* --------------------------------------------------------------- data model

None == <<>>
Some(x) == <<x>>
IsSome(o) == Len(o) = 1
IsNone(o) == Len(o) = 0

\* parser::Id { info: IdInfo, type_args: Vec<Id> }
NameA(n, args) == [info |-> <<"Name", n>>, type_args |-> args]
NumA(i, args) == [info |-> <<"Num", i>>, type_args |-> args]
Name(n) == NameA(n, <<>>)
Num(i) == NumA(i, <<>>)
Inline(ty) == [info |-> <<"Type", ty>>, type_args |-> <<>>]

\* parser::Type
Primitive(p) == <<"Primitive", p>>
Compact(id) == <<"Compact", id>>
SeqT(id) == <<"Seq", id>>
TupleT(ids) == <<"Tuple", ids>>
ArrayT(id, len) == <<"Array", id, len>>
EnumT(variants) == <<"Enum", variants>>
StructT(fields) == <<"Struct", fields>>
Alias(id) == <<"Alias", id>>

IsAlias(ty) == ty[1] = "Alias"

\* The names impl_primitive_types! maps to a PrimitiveType.
PrimitiveNames ==
    {"u8", "u16", "u32", "u64", "u128", "i8", "i16", "i32", "i64", "i128", "bool", "str"}

\* Type::primitive(s)
TypePrimitive(s) == IF s \in PrimitiveNames THEN Some(Primitive(s)) ELSE None

\* parser::TypeDef { name: { name: Option<String>, type_params }, ty }
Def(n, params, ty) == [name |-> [name |-> Some(n), type_params |-> params], ty |-> ty]
AnonDef(ty) == [name |-> [name |-> None, type_params |-> <<>>], ty |-> ty]

\* An enum variant (name, Option<Id>, Option<u32>) and a struct field (name, Id).
Variant(n, tid, ind) == <<n, tid, ind>>
Field(n, tid) == <<n, tid>>

\* js::Result<Type>; "hang" stands for a call that never returns.
OkT(ty) == [st |-> "ok", ty |-> ty, err |-> ""]
ErrT(e) == [st |-> "err", ty |-> <<"None">>, err |-> e]
HangT == [st |-> "hang", ty |-> <<"None">>, err |-> ""]

\* js::Result<Id>
OkId(id) == [st |-> "ok", id |-> id, err |-> ""]
ErrId(e) == [st |-> "err", id |-> Name(""), err |-> e]

\* ---------------------------------------------------------------- registry

\* Registry::default()
EmptyRegistry == [types |-> <<>>, lookup |-> <<>>]

\* AppendDef, overwriting in place an older definition of the same name.
AppendDefUpsert(reg, def) ==
    IF IsSome(def.name.name) /\ def.name.name[1] \in DOMAIN reg.lookup
    THEN [types |-> [reg.types EXCEPT ![reg.lookup[def.name.name[1]] + 1] = def],
          lookup |-> reg.lookup]
    ELSE [types |-> Append(reg.types, def),
          lookup |-> IF IsSome(def.name.name)
                     THEN [n \in DOMAIN reg.lookup \cup {def.name.name[1]} |->
                             IF n = def.name.name[1] THEN Len(reg.types) ELSE reg.lookup[n]]
                     ELSE reg.lookup]

\* AppendDef, keeping the index a name already has (entry().or_insert()).
AppendDefKeepFirst(reg, def) ==
    [types |-> Append(reg.types, def),
     lookup |-> IF IsSome(def.name.name)
                THEN [n \in DOMAIN reg.lookup \cup {def.name.name[1]} |->
                        IF n \in DOMAIN reg.lookup THEN reg.lookup[n] ELSE Len(reg.types)]
                ELSE reg.lookup]

\* One iteration of the loop of Registry::append.
AppendDef(reg, def) ==
    [types |-> Append(reg.types, def),
     lookup |-> IF IsSome(def.name.name)
                THEN [n \in DOMAIN reg.lookup \cup {def.name.name[1]} |->
                        IF n = def.name.name[1] THEN Len(reg.types) ELSE reg.lookup[n]]
                ELSE reg.lookup]

RECURSIVE AppendFrom(_, _, _)
AppendFrom(reg, typelist, i) ==
    IF i > Len(typelist) THEN reg
    ELSE AppendFrom(AppendDef(reg, typelist[i]), typelist, i + 1)

\* Registry::append stopping after the first definition of the list.
RegistryAppendFirst(reg, typelist) ==
    IF Len(typelist) = 0 THEN reg ELSE AppendDef(reg, typelist[1])

\* Registry::append
RegistryAppend(reg, typelist) == AppendFrom(reg, typelist, 1)

\* ------------------------------------------------------ generic substitution

\* GenericLookup::new: the map collected from zip(type_params, type_args); a
\* parameter name that occurs twice keeps the argument inserted last.
GenericLookupNew(type_params, type_args) ==
    [params |-> type_params, args |-> type_args]

MinOf(a, b) == IF a < b THEN a ELSE b

GenericKeys(lk) == 1..MinOf(Len(lk.params), Len(lk.args))

\* GenericLookup::get
GenericGet(lk, name) ==
    IF \E i \in GenericKeys(lk) : lk.params[i] = name
    THEN Some(lk.args[CHOOSE i \in GenericKeys(lk) :
                        /\ lk.params[i] = name
                        /\ \A j \in GenericKeys(lk) : j > i => lk.params[j] # name])
    ELSE None

\* collect::<js::Result<Vec<_>>>() over results rs: the first error, else all
\* the values.
FirstErrIndex(rs) ==
    CHOOSE i \in 1..Len(rs) : rs[i].st # "ok" /\ \A j \in 1..(i - 1) : rs[j].st = "ok"

AllOk(rs) == \A i \in 1..Len(rs) : rs[i].st = "ok"

\* Ok(Id { info, type_args }) from the resolved arguments rs, or their first error.
WithArgs(tid, rs) ==
    IF AllOk(rs)
    THEN OkId([info |-> tid.info, type_args |-> [i \in 1..Len(rs) |-> rs[i].id]])
    ELSE ErrId(rs[FirstErrIndex(rs)].err)

\* Ok(Id::from(ty)) from a resolved inline type r, or its error.
InlineOf(r) == IF r.st = "ok" THEN OkId(Inline(r.ty)) ELSE ErrId(r.err)

\* The shapes GenericLookup::resolve_type rebuilds from resolved ids (`?`
\* passes an error on).
SeqOf(r) == IF r.st = "ok" THEN OkT(SeqT(r.id)) ELSE ErrT(r.err)
ArrayOf(r, len) == IF r.st = "ok" THEN OkT(ArrayT(r.id, len)) ELSE ErrT(r.err)
AliasOf(r) == IF r.st = "ok" THEN OkT(Alias(r.id)) ELSE ErrT(r.err)
TupleOf(rs) ==
    IF AllOk(rs) THEN OkT(TupleT([i \in 1..Len(rs) |-> rs[i].id]))
    ELSE ErrT(rs[FirstErrIndex(rs)].err)
EnumOf(vs, rs) ==
    IF AllOk(rs)
    THEN OkT(EnumT([i \in 1..Len(vs) |->
                Variant(vs[i][1], IF IsSome(vs[i][2]) THEN Some(rs[i].id) ELSE None,
                        vs[i][3])]))
    ELSE ErrT(rs[FirstErrIndex(rs)].err)
StructOf(fs, rs) ==
    IF AllOk(rs) THEN OkT(StructT([i \in 1..Len(fs) |-> Field(fs[i][1], rs[i].id)]))
    ELSE ErrT(rs[FirstErrIndex(rs)].err)

RECURSIVE ResolveTid(_, _), GenericResolveType(_, _)

\* GenericLookup::resolve_tid, Name arm, with self.get(name).
ResolveTidName(lk, tid, got) ==
    IF IsSome(got)
    THEN IF Len(tid.type_args) > 0 THEN ErrId("GenericArgs") ELSE OkId(got[1])
    ELSE WithArgs(tid, [i \in 1..Len(tid.type_args) |-> ResolveTid(lk, tid.type_args[i])])

\* GenericLookup::resolve_tid
ResolveTid(lk, tid) ==
    CASE tid.info[1] = "Name" -> ResolveTidName(lk, tid, GenericGet(lk, tid.info[2]))
      [] tid.info[1] = "Num" -> OkId(tid)
      [] tid.info[1] = "Type" -> InlineOf(GenericResolveType(lk, tid.info[2]))

\* GenericLookup::resolve_type
GenericResolveType(lk, ty) ==
    CASE ty[1] = "Primitive" -> OkT(ty)
      [] ty[1] = "Compact" -> OkT(ty)
      [] ty[1] = "Seq" -> SeqOf(ResolveTid(lk, ty[2]))
      [] ty[1] = "Tuple" -> TupleOf([i \in 1..Len(ty[2]) |-> ResolveTid(lk, ty[2][i])])
      [] ty[1] = "Array" -> ArrayOf(ResolveTid(lk, ty[2]), ty[3])
      [] ty[1] = "Enum" ->
            EnumOf(ty[2], [i \in 1..Len(ty[2]) |->
                            IF IsSome(ty[2][i][2]) THEN ResolveTid(lk, ty[2][i][2][1])
                            ELSE OkId(Name(""))])
      [] ty[1] = "Struct" ->
            StructOf(ty[2], [i \in 1..Len(ty[2]) |-> ResolveTid(lk, ty[2][i][2])])
      [] ty[1] = "Alias" -> AliasOf(ResolveTid(lk, ty[2]))

\* Registry::resolve_generic
ResolveGeneric(tid, def) ==
    IF Len(def.name.type_params) # Len(tid.type_args)
    THEN ErrT("ParamCount")
    ELSE IF Len(tid.type_args) = 0
    THEN OkT(def.ty)
    ELSE GenericResolveType(GenericLookupNew(def.name.type_params, tid.type_args), def.ty)

\* --------------------------------------------------------------- resolution

\* Registry::get_type_shallow
GetTypeShallow(reg, tid) ==
    IF tid.info[1] = "Type" THEN OkT(tid.info[2])
    ELSE IF tid.info[1] = "Name" /\ tid.info[2] \notin DOMAIN reg.lookup
    THEN LET prim == TypePrimitive(tid.info[2]) IN
         IF IsSome(prim) THEN OkT(prim[1]) ELSE ErrT("UnknownType")
    ELSE LET ind == IF tid.info[1] = "Name" THEN reg.lookup[tid.info[2]] ELSE tid.info[2] IN
         IF ind >= Len(reg.types) THEN ErrT("UnknownType")
         ELSE ResolveGeneric(tid, reg.types[ind + 1])

\* get_type with `if let` for `while let`: one alias level only.
GetTypeLoopOnce(reg, t, held) ==
    IF ~IsAlias(t) THEN OkT(t) ELSE GetTypeShallow(reg, t[2])

\* The loop of Registry::get_type, entered with the shape t and the shapes
\* the loop has already held.  get_type_shallow is a function of the registry
\* and the id, and the registry is borrowed for the whole call, so a shape
\* that comes back makes the loop run forever.
RECURSIVE GetTypeLoop(_, _, _)

\* One turn of the loop: r is what get_type_shallow returned for t's target.
GetTypeLoopStep(reg, t, held, r) ==
    IF r.st = "ok" THEN GetTypeLoop(reg, r.ty, Append(held, t)) ELSE r

GetTypeLoop(reg, t, held) ==
    IF ~IsAlias(t) THEN OkT(t)
    ELSE IF (\E i \in 1..Len(held) : held[i] = t) \/ Len(held) >= MaxChase THEN HangT
    ELSE GetTypeLoopStep(reg, t, held, GetTypeShallow(reg, t[2]))

\* Registry::get_type after its first get_type_shallow(tid)?.
GetTypeFrom(reg, r) == IF r.st = "ok" THEN GetTypeLoop(reg, r.ty, <<>>) ELSE r

\* Registry::get_type
GetType(reg, tid) == GetTypeFrom(reg, GetTypeShallow(reg, tid))

\* The texts `@` type-id the scripts pass as type names besides @u32 and @().
CompactLiterals ==
    {"@u8", "@u16", "@u64", "@u128", "@i8", "@i16", "@i32", "@i64", "@i128", "@bool",
     "@str", "@Choice", "@Msg", "@[u16]", "@(u8,u16)", "@[u16;2]"}

\* The identifier after the `@` of such a text.
CompactInner(lit) ==
    CASE lit = "@u8" -> "u8" [] lit = "@u16" -> "u16" [] lit = "@u64" -> "u64"
      [] lit = "@u128" -> "u128" [] lit = "@i8" -> "i8" [] lit = "@i16" -> "i16"
      [] lit = "@i32" -> "i32" [] lit = "@i64" -> "i64" [] lit = "@i128" -> "i128"
      [] lit = "@bool" -> "bool" [] lit = "@str" -> "str" [] lit = "@Choice" -> "Choice"
      [] lit = "@Msg" -> "Msg"

\* The inline type expressions the scripts of this model pass as type names,
\* with the shape the grammar of type_parser gives each.
LiteralTypes ==
    [lit \in {"[u8]", "[u16]", "(u8,u16)", "[u8;2]", "[u16;2]", "@u32", "@()",
              "Pair<u8>", "0"} \cup CompactLiterals |->
        CASE lit = "[u8]" -> SeqT(Name("u8"))
          [] lit = "@[u16]" -> Compact(Inline(SeqT(Name("u16"))))
          [] lit = "@(u8,u16)" -> Compact(Inline(TupleT(<<Name("u8"), Name("u16")>>)))
          [] lit = "@[u16;2]" -> Compact(Inline(ArrayT(Name("u16"), 2)))
          [] lit \in CompactLiterals -> Compact(Name(CompactInner(lit)))
          [] lit = "[u16]" -> SeqT(Name("u16"))
          [] lit = "(u8,u16)" -> TupleT(<<Name("u8"), Name("u16")>>)
          [] lit = "[u8;2]" -> ArrayT(Name("u8"), 2)
          [] lit = "[u16;2]" -> ArrayT(Name("u16"), 2)
          [] lit = "@u32" -> Compact(Name("u32"))
          [] lit = "@()" -> Compact(Inline(TupleT(<<>>)))
          [] lit = "Pair<u8>" -> Alias(NameA("Pair", <<Name("u8")>>))
          [] lit = "0" -> Alias(Num(0))]

\* The texts that lex as one identifier.
Idents ==
    PrimitiveNames \cup {"A", "B", "T", "Pair", "Choice", "G", "W", "Msg", "Big", "Dup", "nope"}

\* parser::parse_type: primitive_def is the first choice of type_parser, so a
\* primitive's name is that primitive; another identifier is an alias_def.
ParseType(lit) ==
    IF lit \in DOMAIN LiteralTypes THEN OkT(LiteralTypes[lit])
    ELSE IF lit \in PrimitiveNames THEN OkT(Primitive(lit))
    ELSE IF lit \in Idents THEN OkT(Alias(Name(lit)))
    ELSE ErrT("Parse")

RECURSIVE ResolveType(_, _, _)

\* Registry::resolve_type, the fallback: ty is what parse_type(name) returned.
ResolveParsed(reg, ty) ==
    IF ty.st # "ok" THEN ty
    ELSE IF IsAlias(ty.ty) THEN ResolveType(reg, ty.ty[2], FALSE)
    ELSE ty

\* Registry::resolve_type, with the result of self.get_type(tid).
ResolveTypeAfter(reg, tid, fallback, result) ==
    IF result.st = "hang" THEN result
    ELSE IF result.st = "ok" \/ ~fallback THEN result
    ELSE IF tid.info[1] # "Name" THEN result
    ELSE ResolveParsed(reg, ParseType(tid.info[2]))

\* Registry::resolve_type
ResolveType(reg, tid, fallback) == ResolveTypeAfter(reg, tid, fallback, GetType(reg, tid))

\* ------------------------------------------------------- dynamic values

\* js::Value as the codec sees it.  A string is its sequence of character
\* codes, an object its entries in property order.
JsNum(n) == <<"num", n>>
JsBool(b) == <<"bool", b>>
JsStr(chars) == <<"str", chars>>
JsNull == <<"null">>
JsUndefined == <<"undefined">>
JsArr(elems) == <<"arr", elems>>
JsObj(entries) == <<"obj", entries>>
JsU8a(bytes) == <<"u8a", bytes>>

\* js::Result<js::Value>
OkV(v) == [st |-> "ok", val |-> v, err |-> ""]
ErrV(e) == [st |-> "err", val |-> JsUndefined, err |-> e]

\* Value::index
ValueIndex(v, i) ==
    CASE v[1] = "arr" -> OkV(IF i < Len(v[2]) THEN v[2][i + 1] ELSE JsUndefined)
      [] v[1] = "u8a" -> OkV(IF i < Len(v[2]) THEN JsNum(v[2][i + 1]) ELSE JsUndefined)
      [] v[1] = "str" -> OkV(IF i < Len(v[2]) THEN JsStr(<<v[2][i + 1]>>) ELSE JsUndefined)
      [] v[1] \in {"null", "undefined"} -> ErrV("NotAnObject")
      [] OTHER -> OkV(JsUndefined)

\* Value::get_property
ValueGetProperty(v, name) ==
    CASE v[1] = "obj" ->
            IF \E i \in 1..Len(v[2]) : v[2][i][1] = name
            THEN OkV(v[2][CHOOSE i \in 1..Len(v[2]) : v[2][i][1] = name][2])
            ELSE OkV(JsUndefined)
      [] v[1] \in {"arr", "u8a", "str"} ->
            OkV(IF name = "length" THEN JsNum(Len(v[2])) ELSE JsUndefined)
      [] v[1] \in {"null", "undefined"} -> ErrV("NotAnObject")
      [] OTHER -> OkV(JsUndefined)

\* Value::length
ValueLength(v) ==
    IF v[1] \in {"arr", "u8a", "str"} THEN [st |-> "ok", n |-> Len(v[2])]
    ELSE [st |-> "err", n |-> 0]

\* Value::entries: the (key, value) pairs of an object, in property order.
ValueEntries(v) ==
    IF v[1] = "obj" THEN [st |-> "ok", entries |-> v[2]]
    ELSE [st |-> "err", entries |-> <<>>]

\* 2^bits for the widths TLC's integers hold.
Pow2(bits) ==
    CASE bits = 8 -> 256
      [] bits = 16 -> 65536
      [] bits = 30 -> 1073741824

\* Value::decode_u8 .. decode_i128: the number, if it fits the width.  The
\* model holds numbers below 2^31, so widths from 32 bits up only reject
\* negative numbers (unsigned) or nothing (signed).
IntFits(n, signed, bits) ==
    IF signed
    THEN bits >= 32 \/ (n >= -(Pow2(bits) \div 2) /\ n < Pow2(bits) \div 2)
    ELSE n >= 0 /\ (bits >= 32 \/ n < Pow2(bits))

ValueDecodeInt(v, signed, bits) ==
    IF v[1] = "num" /\ IntFits(v[2], signed, bits)
    THEN [st |-> "ok", n |-> v[2]] ELSE [st |-> "err", n |-> 0]

\* Value::decode_bool
ValueDecodeBool(v) ==
    IF v[1] = "bool" THEN [st |-> "ok", b |-> v[2]] ELSE [st |-> "err", b |-> FALSE]

\* JsString::from_js_value
ValueDecodeString(v) ==
    IF v[1] = "str" THEN [st |-> "ok", s |-> v[2]] ELSE [st |-> "err", s |-> <<>>]

\* ------------------------------------------------------------ wire format

\* n as `width` little-endian bytes, two's complement for a negative n.
RECURSIVE ToLE(_, _)
ToLE(n, width) ==
    IF width = 0 THEN <<>> ELSE <<n % 256>> \o ToLE(n \div 256, width - 1)

\* The unsigned number little-endian bytes spell.
RECURSIVE FromLE(_)
FromLE(bytes) ==
    IF Len(bytes) = 0 THEN 0 ELSE bytes[1] + 256 * FromLE(Tail(bytes))

\* The signed number little-endian two's-complement bytes spell.
FromLESigned(bytes) ==
    IF bytes[Len(bytes)] < 128 THEN FromLE(bytes)
    ELSE -(FromLE([i \in 1..Len(bytes) |-> 255 - bytes[i]]) + 1)

Take(bytes, n) == SubSeq(bytes, 1, n)
Drop(bytes, n) == SubSeq(bytes, n + 1, Len(bytes))

\* Width in bytes and signedness of the integer primitives.
PrimBytes(p) ==
    CASE p \in {"u8", "i8"} -> 1
      [] p \in {"u16", "i16"} -> 2
      [] p \in {"u32", "i32"} -> 4
      [] p \in {"u64", "i64"} -> 8
      [] p \in {"u128", "i128"} -> 16

PrimSigned(p) == p \in {"i8", "i16", "i32", "i64", "i128"}

IntPrims == {"u8", "u16", "u32", "u64", "u128", "i8", "i16", "i32", "i64", "i128"}
UnsignedPrims == {"u8", "u16", "u32", "u64", "u128"}

\* Compact(n).encode_to for an unsigned n.
CompactEncode(n) ==
    IF n < 64 THEN <<n * 4>>
    ELSE IF n < 16384 THEN ToLE(n * 4 + 1, 2)
    ELSE IF n < 1073741824 THEN ToLE((n % 536870912) * 4 + 2, 3) \o <<n \div 4194304>>
    ELSE <<3>> \o ToLE(n, 4)

\* Compact::<uN>::decode for a type of `width` bytes: the modes above, each
\* accepted only for a value that needs it and fits the type.
CompactDecode(buf, width) ==
    LET bad == [st |-> "err", n |-> 0, rest |-> buf] IN
    IF Len(buf) = 0 THEN bad
    ELSE LET mode == buf[1] % 4 IN
         CASE mode = 0 -> [st |-> "ok", n |-> buf[1] \div 4, rest |-> Drop(buf, 1)]
           [] mode = 1 ->
                IF Len(buf) < 2 THEN bad
                ELSE LET x == FromLE(Take(buf, 2)) \div 4 IN
                     IF x > 63 /\ (width > 1 \/ x <= 255)
                     THEN [st |-> "ok", n |-> x, rest |-> Drop(buf, 2)] ELSE bad
           [] mode = 2 ->
                IF Len(buf) < 4 \/ width < 2 THEN bad
                ELSE LET x == FromLE(Take(buf, 3)) \div 4 + buf[4] * 4194304 IN
                     IF x > 16383 /\ (width > 2 \/ x <= 65535)
                     THEN [st |-> "ok", n |-> x, rest |-> Drop(buf, 4)] ELSE bad
           [] mode = 3 ->
                \* only the four-byte big-integer form holds a number below 2^31
                IF buf[1] # 3 \/ Len(buf) < 5 \/ width < 4 \/ buf[5] >= 128 THEN bad
                ELSE LET x == FromLE(SubSeq(buf, 2, 5)) IN
                     IF x > 1073741823
                     THEN [st |-> "ok", n |-> x, rest |-> Drop(buf, 5)] ELSE bad

\* ----------------------------------------------------------------- encoder

\* get_variant_by_name, taking the declaration index for the discriminant
\* whether or not the variant declares one.
GetVariantByNameIndexOnly(variants, name) ==
    IF \E i \in 1..Len(variants) : variants[i][1] = name
    THEN LET ind == CHOOSE i \in 1..Len(variants) :
                        /\ variants[i][1] = name
                        /\ \A j \in 1..(i - 1) : variants[j][1] # name IN
         Some(<<variants[ind][1], variants[ind][2], ind - 1>>)
    ELSE None

\* Enum::get_variant_by_name: (name, payload id, discriminant) of the first
\* variant called name.
GetVariantByName(variants, name) ==
    IF \E i \in 1..Len(variants) : variants[i][1] = name
    THEN LET ind == CHOOSE i \in 1..Len(variants) :
                        /\ variants[i][1] = name
                        /\ \A j \in 1..(i - 1) : variants[j][1] # name IN
         Some(<<variants[ind][1], variants[ind][2],
                IF IsSome(variants[ind][3]) THEN variants[ind][3][1] ELSE ind - 1>>)
    ELSE None

\* The value of a hexadecimal digit given by its character code, or -1.
HexDigit(c) ==
    IF c >= 48 /\ c <= 57 THEN c - 48
    ELSE IF c >= 97 /\ c <= 102 THEN c - 87
    ELSE IF c >= 65 /\ c <= 70 THEN c - 55
    ELSE -1

\* BytesOrHex::from_js_value on a string: hex digits after an optional "0x".
HexDecode(chars) ==
    LET body == IF Len(chars) >= 2 /\ chars[1] = 48 /\ chars[2] = 120
                THEN Drop(chars, 2) ELSE chars IN
    IF Len(body) % 2 = 0 /\ \A i \in 1..Len(body) : HexDigit(body[i]) >= 0
    THEN [st |-> "ok",
          bytes |-> [i \in 1..(Len(body) \div 2) |->
                        16 * HexDigit(body[2 * i - 1]) + HexDigit(body[2 * i])]]
    ELSE [st |-> "err", bytes |-> <<>>]

\* u8a_or_hex up to the call of f: the bytes handed to f, an error, or None
\* for a value that is neither a Uint8Array nor a string.
U8aOrHex(value) ==
    IF value[1] = "u8a" THEN Some([st |-> "ok", bytes |-> value[2]])
    ELSE IF value[1] = "str" THEN Some(HexDecode(value[2]))
    ELSE None

\* js::Result<()> of an encode step, with the output buffer as the step left it.
OkE(out) == [st |-> "ok", out |-> out, err |-> ""]
ErrE(out, e) == [st |-> "err", out |-> out, err |-> e]

\* encode_primitive
EncodePrimitive(value, t, out) ==
    CASE t \in IntPrims ->
            LET d == ValueDecodeInt(value, PrimSigned(t), 8 * PrimBytes(t)) IN
            IF d.st = "ok" THEN OkE(out \o ToLE(d.n, PrimBytes(t))) ELSE ErrE(out, "Coerce")
      [] t = "bool" ->
            LET d == ValueDecodeBool(value) IN
            IF d.st = "ok" THEN OkE(out \o <<IF d.b THEN 1 ELSE 0>>) ELSE ErrE(out, "Coerce")
      [] t = "str" ->
            LET d == ValueDecodeString(value) IN
            IF d.st = "ok" THEN OkE(out \o CompactEncode(Len(d.s)) \o d.s)
            ELSE ErrE(out, "Coerce")

\* encode_compact_primitive taking the signed integers as well.
EncodeCompactPrimitiveSigned(value, t, out) ==
    IF t \in IntPrims
    THEN LET d == ValueDecodeInt(value, PrimSigned(t), 8 * PrimBytes(t)) IN
         IF d.st = "ok" /\ d.n >= 0 THEN OkE(out \o CompactEncode(d.n)) ELSE ErrE(out, "Coerce")
    ELSE ErrE(out, "Compactable")

\* encode_compact_primitive
EncodeCompactPrimitive(value, t, out) ==
    IF t \in UnsignedPrims
    THEN LET d == ValueDecodeInt(value, FALSE, 8 * PrimBytes(t)) IN
         IF d.st = "ok" THEN OkE(out \o CompactEncode(d.n)) ELSE ErrE(out, "Coerce")
    ELSE ErrE(out, "Compactable")

\* How a failed resolve_type ends an encode step.
ResolveFailE(r, out) ==
    IF r.st = "hang" THEN [st |-> "hang", out |-> out, err |-> ""] ELSE ErrE(out, r.err)

RECURSIVE EncodeValue(_, _, _, _), EncodeElems(_, _, _, _, _, _), EncodeTuple(_, _, _, _, _),
          EncodeStruct(_, _, _, _, _), EncodeEnum(_, _, _, _, _), EncodeShape(_, _, _, _)

\* The loops `for i in 0..length` of the Seq and Array arms, from index i.
EncodeElems(value, tid, reg, out, i, length) ==
    IF i >= length THEN OkE(out)
    ELSE LET sub == ValueIndex(value, i) IN
         IF sub.st # "ok" THEN ErrE(out, sub.err)
         ELSE LET r == EncodeValue(sub.val, tid, reg, out) IN
              IF r.st # "ok" THEN r ELSE EncodeElems(value, tid, reg, r.out, i + 1, length)

\* The loop of the Tuple arm, from position ind (0-based).
EncodeTuple(value, ids, reg, out, ind) ==
    IF ind >= Len(ids) THEN OkE(out)
    ELSE LET sub == ValueIndex(value, ind) IN
         IF sub.st # "ok" THEN ErrE(out, sub.err)
         ELSE LET r == EncodeValue(sub.val, ids[ind + 1], reg, out) IN
              IF r.st # "ok" THEN r ELSE EncodeTuple(value, ids, reg, r.out, ind + 1)

\* The Struct arm going through the fields from the last to the first.
EncodeStructReversed(value, fields, reg, out, k) ==
    IF k > Len(fields) THEN OkE(out)
    ELSE LET f == fields[Len(fields) + 1 - k]
             sub == ValueGetProperty(value, f[1]) IN
         IF sub.st # "ok" THEN ErrE(out, sub.err)
         ELSE LET r == EncodeValue(sub.val, f[2], reg, out) IN
              IF r.st # "ok" THEN r ELSE EncodeStruct(value, fields, reg, r.out, k + 1)

\* The loop of the Struct arm, from field k (1-based).
EncodeStruct(value, fields, reg, out, k) ==
    IF k > Len(fields) THEN OkE(out)
    ELSE LET sub == ValueGetProperty(value, fields[k][1]) IN
         IF sub.st # "ok" THEN ErrE(out, sub.err)
         ELSE LET r == EncodeValue(sub.val, fields[k][2], reg, out) IN
              IF r.st # "ok" THEN r ELSE EncodeStruct(value, fields, reg, r.out, k + 1)

\* The loop of the Enum arm over value.entries(), from entry k (1-based).
EncodeEnum(entries, variants, reg, out, k) ==
    IF k > Len(entries) THEN ErrE(out, "EnumNoVariant")
    ELSE LET found == GetVariantByName(variants, entries[k][1]) IN
         IF IsSome(found)
         THEN IF found[1][3] > 255 THEN ErrE(out, "VariantIndexTooLarge")
              ELSE IF IsSome(found[1][2])
              THEN EncodeValue(entries[k][2], found[1][2][1], reg, out \o <<found[1][3]>>)
              ELSE OkE(out \o <<found[1][3]>>)
         ELSE EncodeEnum(entries, variants, reg, out, k + 1)

\* encode_value, Compact arm, with the resolved inner type.
EncodeCompact(value, ty, out) ==
    IF ty.st # "ok" THEN ResolveFailE(ty, out)
    ELSE IF ty.ty[1] = "Primitive" THEN EncodeCompactPrimitive(value, ty.ty[2], out)
    ELSE IF ty.ty[1] = "Tuple" /\ Len(ty.ty[2]) = 0 THEN OkE(out)
    ELSE ErrE(out, "Compactable")

\* encode_value, Seq arm after the byte fast path: the length, then the elements.
EncodeSeqElems(value, tid, reg, out, lp) ==
    IF lp.st # "ok" THEN ErrE(out, lp.err)
    ELSE IF ValueDecodeInt(lp.val, FALSE, 32).st # "ok" THEN ErrE(out, "Coerce")
    ELSE EncodeElems(value, tid, reg,
                     out \o CompactEncode(ValueDecodeInt(lp.val, FALSE, 32).n),
                     0, ValueDecodeInt(lp.val, FALSE, 32).n)

\* The Seq arm whose byte fast path writes the bytes without their length.
EncodeSeqRaw(value, tid, reg, out, ty, fast) ==
    IF ty.st # "ok" THEN ResolveFailE(ty, out)
    ELSE IF ty.ty = Primitive("u8") /\ IsSome(fast)
    THEN IF fast[1].st = "ok" THEN OkE(out \o fast[1].bytes) ELSE ErrE(out, "Hex")
    ELSE EncodeSeqElems(value, tid, reg, out, ValueGetProperty(value, "length"))

\* encode_value, Seq arm, with the resolved element type and u8a_or_hex(value).
EncodeSeq(value, tid, reg, out, ty, fast) ==
    IF ty.st # "ok" THEN ResolveFailE(ty, out)
    ELSE IF ty.ty = Primitive("u8") /\ IsSome(fast)
    THEN IF fast[1].st = "ok"
         THEN OkE(out \o CompactEncode(Len(fast[1].bytes)) \o fast[1].bytes)
         ELSE ErrE(out, "Hex")
    ELSE EncodeSeqElems(value, tid, reg, out, ValueGetProperty(value, "length"))

\* The Array arm writing whatever bytes the fast path is given.
EncodeArrayAnyLength(value, tid, len, reg, out, ty, fast, actual) ==
    IF ty.st # "ok" THEN ResolveFailE(ty, out)
    ELSE IF ty.ty = Primitive("u8") /\ IsSome(fast)
    THEN IF fast[1].st # "ok" THEN ErrE(out, "Hex") ELSE OkE(out \o fast[1].bytes)
    ELSE IF actual.st # "ok" THEN ErrE(out, "Length")
    ELSE IF actual.n # len THEN ErrE(out, "ArrayLength")
    ELSE EncodeElems(value, tid, reg, out, 0, len)

\* encode_value, Array arm, with the resolved element type, u8a_or_hex(value)
\* and value.length().
EncodeArray(value, tid, len, reg, out, ty, fast, actual) ==
    IF ty.st # "ok" THEN ResolveFailE(ty, out)
    ELSE IF ty.ty = Primitive("u8") /\ IsSome(fast)
    THEN IF fast[1].st # "ok" THEN ErrE(out, "Hex")
         ELSE IF Len(fast[1].bytes) # len THEN ErrE(out, "ArrayLength")
         ELSE OkE(out \o fast[1].bytes)
    ELSE IF actual.st # "ok" THEN ErrE(out, "Length")
    ELSE IF actual.n # len THEN ErrE(out, "ArrayLength")
    ELSE EncodeElems(value, tid, reg, out, 0, len)

\* encode_value, the match on the resolved shape t.
EncodeShape(value, t, reg, out) ==
    CASE t[1] = "Alias" -> [st |-> "panic", out |-> out, err |-> "unreachable"]
      [] t[1] = "Primitive" -> EncodePrimitive(value, t[2], out)
      [] t[1] = "Compact" -> EncodeCompact(value, ResolveType(reg, t[2], FALSE), out)
      [] t[1] = "Seq" ->
            EncodeSeq(value, t[2], reg, out, ResolveType(reg, t[2], FALSE), U8aOrHex(value))
      [] t[1] = "Tuple" -> EncodeTuple(value, t[2], reg, out, 0)
      [] t[1] = "Array" ->
            EncodeArray(value, t[2], t[3], reg, out, ResolveType(reg, t[2], FALSE),
                        U8aOrHex(value), ValueLength(value))
      [] t[1] = "Enum" ->
            IF ValueEntries(value).st # "ok" THEN ErrE(out, "Entries")
            ELSE EncodeEnum(ValueEntries(value).entries, t[2], reg, out, 1)
      [] t[1] = "Struct" -> EncodeStruct(value, t[2], reg, out, 1)

\* encode_value, after `self.resolve_type(tid, true)`.
EncodeResolved(value, rt, reg, out) ==
    IF rt.st # "ok" THEN ResolveFailE(rt, out) ELSE EncodeShape(value, rt.ty, reg, out)

\* encode_value
EncodeValue(value, tid, reg, out) ==
    EncodeResolved(value, ResolveType(reg, tid, TRUE), reg, out)

\* ----------------------------------------------------------------- decoder

\* get_variant_by_index, scanning for an explicit discriminant before it
\* looks at the position.
GetVariantByIndexScanFirst(variants, tag) ==
    IF \E i \in 1..Len(variants) : IsSome(variants[i][3]) /\ variants[i][3][1] = tag
    THEN LET k == CHOOSE i \in 1..Len(variants) :
                      /\ IsSome(variants[i][3]) /\ variants[i][3][1] = tag
                      /\ \A j \in 1..(i - 1) :
                            ~(IsSome(variants[j][3]) /\ variants[j][3][1] = tag) IN
         Some(<<variants[k][1], variants[k][2]>>)
    ELSE IF tag < Len(variants) /\ IsNone(variants[tag + 1][3])
    THEN Some(<<variants[tag + 1][1], variants[tag + 1][2]>>)
    ELSE None

\* Enum::get_variant_by_index: (name, payload id) for a tag byte.
GetVariantByIndex(variants, tag) ==
    IF /\ tag < Len(variants)
       /\ \/ IsNone(variants[tag + 1][3])
          \/ variants[tag + 1][3][1] = tag
    THEN Some(<<variants[tag + 1][1], variants[tag + 1][2]>>)
    ELSE IF \E i \in 1..Len(variants) : IsSome(variants[i][3]) /\ variants[i][3][1] = tag
    THEN LET k == CHOOSE i \in 1..Len(variants) :
                      /\ IsSome(variants[i][3]) /\ variants[i][3][1] = tag
                      /\ \A j \in 1..(i - 1) :
                            ~(IsSome(variants[j][3]) /\ variants[j][3][1] = tag) IN
         Some(<<variants[k][1], variants[k][2]>>)
    ELSE None

\* js::Result<js::Value> of a decode step, with the cursor as the step left it.
OkD(v, buf) == [st |-> "ok", val |-> v, buf |-> buf, err |-> ""]
ErrD(buf, e) == [st |-> "err", val |-> JsUndefined, buf |-> buf, err |-> e]

\* Vec::<u8>::decode answering with the bytes that remain when the buffer is
\* shorter than the length prefix says.
DecodeBytesShort(buf) ==
    LET len == CompactDecode(buf, 4) IN
    IF len.st # "ok" THEN [st |-> "err", bytes |-> <<>>, rest |-> buf]
    ELSE IF Len(len.rest) < len.n THEN [st |-> "ok", bytes |-> len.rest, rest |-> <<>>]
    ELSE [st |-> "ok", bytes |-> Take(len.rest, len.n), rest |-> Drop(len.rest, len.n)]

\* Vec::<u8>::decode: a compact u32 length, then that many bytes.
DecodeBytes(buf) ==
    LET len == CompactDecode(buf, 4) IN
    IF len.st # "ok" THEN [st |-> "err", bytes |-> <<>>, rest |-> buf]
    ELSE IF Len(len.rest) < len.n THEN [st |-> "err", bytes |-> <<>>, rest |-> len.rest]
    ELSE [st |-> "ok", bytes |-> Take(len.rest, len.n), rest |-> Drop(len.rest, len.n)]

\* decode_primitive
DecodePrimitive(buf, t) ==
    CASE t \in IntPrims ->
            IF Len(buf) < PrimBytes(t) THEN ErrD(buf, "UnexpectedEnd")
            ELSE OkD(JsNum(IF PrimSigned(t) THEN FromLESigned(Take(buf, PrimBytes(t)))
                           ELSE FromLE(Take(buf, PrimBytes(t)))),
                     Drop(buf, PrimBytes(t)))
      [] t = "bool" ->
            IF Len(buf) < 1 \/ buf[1] > 1 THEN ErrD(buf, "UnexpectedEnd")
            ELSE OkD(JsBool(buf[1] = 1), Drop(buf, 1))
      [] t = "str" ->
            LET d == DecodeBytes(buf) IN
            \* String::decode rejects bytes that are not UTF-8; the model's
            \* strings are ASCII.
            IF d.st # "ok" \/ \E i \in 1..Len(d.bytes) : d.bytes[i] >= 128
            THEN ErrD(buf, "UnexpectedEnd")
            ELSE OkD(JsStr(d.bytes), d.rest)

\* decode_compact_primitive
DecodeCompactPrimitive(buf, t) ==
    IF t \in UnsignedPrims
    THEN LET d == CompactDecode(buf, PrimBytes(t)) IN
         IF d.st = "ok" THEN OkD(JsNum(d.n), d.rest) ELSE ErrD(buf, "UnexpectedEnd")
    ELSE ErrD(buf, "Compactable")

\* How a failed resolve_type ends a decode step.
ResolveFailD(r, buf) ==
    IF r.st = "hang" THEN [st |-> "hang", val |-> JsUndefined, buf |-> buf, err |-> ""]
    ELSE ErrD(buf, r.err)

\* Value::set_property on the entries of an object.
SetProperty(entries, name, v) ==
    IF \E i \in 1..Len(entries) : entries[i][1] = name
    THEN [i \in 1..Len(entries) |-> IF entries[i][1] = name THEN <<name, v>> ELSE entries[i]]
    ELSE Append(entries, <<name, v>>)

RECURSIVE DecodeValue(_, _, _, _), DecodeElems(_, _, _, _, _, _), DecodeTuple(_, _, _, _, _, _),
          DecodeStruct(_, _, _, _, _, _), DecodeShape(_, _, _, _)

\* The loops `for _ in 0..length` of the Seq and Array arms, n elements to go.
DecodeElems(buf, ty, reg, depth, n, acc) ==
    IF n = 0 THEN OkD(JsArr(acc), buf)
    ELSE LET r == DecodeValue(buf, ty, reg, depth) IN
         IF r.st # "ok" THEN r
         ELSE DecodeElems(r.buf, ty, reg, depth, n - 1, Append(acc, r.val))

\* The loop of the Tuple arm, from element k (1-based).
DecodeTuple(buf, types, reg, depth, k, acc) ==
    IF k > Len(types) THEN OkD(JsArr(acc), buf)
    ELSE LET r == DecodeValue(buf, types[k], reg, depth) IN
         IF r.st # "ok" THEN r
         ELSE DecodeTuple(r.buf, types, reg, depth, k + 1, Append(acc, r.val))

\* The loop of the Struct arm, from field k (1-based).
DecodeStruct(buf, fields, reg, depth, k, acc) ==
    IF k > Len(fields) THEN OkD(JsObj(acc), buf)
    ELSE LET r == DecodeValue(buf, fields[k][2], reg, depth) IN
         IF r.st # "ok" THEN r
         ELSE DecodeStruct(r.buf, fields, reg, depth, k + 1,
                           SetProperty(acc, fields[k][1], r.val))

\* decode_valude, Compact arm, with the resolved inner type.
DecodeCompact(buf, ty) ==
    IF ty.st # "ok" THEN ResolveFailD(ty, buf)
    ELSE IF ty.ty[1] = "Primitive" THEN DecodeCompactPrimitive(buf, ty.ty[2])
    ELSE IF ty.ty[1] = "Tuple" /\ Len(ty.ty[2]) = 0 THEN OkD(JsArr(<<>>), buf)
    ELSE ErrD(buf, "Compactable")

\* decode_valude, Seq arm for bytes, with Vec::<u8>::decode's result.
DecodeSeqBytes(buf, d) ==
    IF d.st = "ok" THEN OkD(JsU8a(d.bytes), d.rest) ELSE ErrD(buf, "UnexpectedEnd")

\* decode_valude, Seq arm for other elements, with the decoded length.
DecodeSeqElems(buf, tid, reg, depth, length) ==
    IF length.st # "ok" THEN ErrD(buf, "UnexpectedEnd")
    ELSE DecodeElems(length.rest, tid, reg, depth + 1, length.n, <<>>)

\* decode_valude, Seq arm, with the resolved element type.
DecodeSeq(buf, tid, reg, depth, ty) ==
    IF ty.st # "ok" THEN ResolveFailD(ty, buf)
    ELSE IF ty.ty = Primitive("u8") THEN DecodeSeqBytes(buf, DecodeBytes(buf))
    ELSE DecodeSeqElems(buf, tid, reg, depth, CompactDecode(buf, 4))

\* decode_valude, Array arm, with the resolved element type.
DecodeArray(buf, tid, len, reg, depth, ty) ==
    IF ty.st # "ok" THEN ResolveFailD(ty, buf)
    ELSE IF ty.ty = Primitive("u8")
    THEN IF Len(buf) < len THEN ErrD(buf, "UnexpectedEnd")
         ELSE OkD(JsU8a(Take(buf, len)), Drop(buf, len))
    ELSE DecodeElems(buf, tid, reg, depth + 1, len, <<>>)

\* The Enum arm answering {name: null} whatever the payload.
DecodeVariantPayloadNull(name, r) ==
    IF r.st # "ok" THEN r ELSE OkD(JsObj(<<<<name, JsNull>>>>), r.buf)

\* decode_valude, Enum arm: wraps the payload as {name: payload}.
DecodeVariantPayload(name, r) ==
    IF r.st # "ok" THEN r ELSE OkD(JsObj(<<<<name, r.val>>>>), r.buf)

\* decode_valude, Enum arm, with the variant get_variant_by_index found.
DecodeVariant(buf, reg, depth, found) ==
    IF IsNone(found) THEN ErrD(Drop(buf, 1), "UnknownVariant")
    ELSE IF IsSome(found[1][2])
    THEN DecodeVariantPayload(found[1][1],
                              DecodeValue(Drop(buf, 1), found[1][2][1], reg, depth + 1))
    ELSE OkD(JsObj(<<<<found[1][1], JsNull>>>>), Drop(buf, 1))

\* decode_valude, the match on the resolved shape t.
DecodeShape(buf, t, reg, depth) ==
    CASE t[1] = "Alias" -> [st |-> "panic", val |-> JsUndefined, buf |-> buf, err |-> ""]
      [] t[1] = "Primitive" -> DecodePrimitive(buf, t[2])
      [] t[1] = "Compact" -> DecodeCompact(buf, ResolveType(reg, t[2], FALSE))
      [] t[1] = "Seq" -> DecodeSeq(buf, t[2], reg, depth, ResolveType(reg, t[2], FALSE))
      [] t[1] = "Tuple" -> DecodeTuple(buf, t[2], reg, depth + 1, 1, <<>>)
      [] t[1] = "Array" ->
            DecodeArray(buf, t[2], t[3], reg, depth, ResolveType(reg, t[2], FALSE))
      [] t[1] = "Enum" ->
            IF Len(buf) < 1 THEN ErrD(buf, "UnexpectedEnd")
            ELSE DecodeVariant(buf, reg, depth, GetVariantByIndex(t[2], buf[1]))
      [] t[1] = "Struct" -> DecodeStruct(buf, t[2], reg, depth + 1, 1, <<>>)

\* decode_valude, after `self.resolve_type(tid, true)`.
DecodeResolved(buf, rt, reg, depth) ==
    IF rt.st # "ok" THEN ResolveFailD(rt, buf) ELSE DecodeShape(buf, rt.ty, reg, depth)

\* decode_valude, `depth` calls deep.
DecodeValue(buf, tid, reg, depth) ==
    IF depth > MaxDepth
    THEN [st |-> "overflow", val |-> JsUndefined, buf |-> buf, err |-> ""]
    ELSE DecodeResolved(buf, ResolveType(reg, tid, TRUE), reg, depth)

\* ------------------------------------------------------------ source texts

\* The type-definition texts the scripts pass to parseTypes and appendTypes,
\* with the definition list parser::parse_types gives each.
SourceAst(src) ==
    CASE src = "A=B;B=u32" ->
            <<Def("A", <<>>, Alias(Name("B"))), Def("B", <<>>, Primitive("u32"))>>
      [] src = "B=A" -> <<Def("B", <<>>, Alias(Name("A")))>>
      [] src = "A=A" -> <<Def("A", <<>>, Alias(Name("A")))>>
      [] src = "A=(A)" -> <<Def("A", <<>>, TupleT(<<Name("A")>>))>>
      [] src = "A={x:A}" -> <<Def("A", <<>>, StructT(<<Field("x", Name("A"))>>))>>
      [] src = "P<T,U>=(T,U,[U<T>])" ->
            <<Def("P", <<"T", "U">>,
                  TupleT(<<Name("T"), Name("U"),
                           Inline(SeqT(NameA("U", <<Name("T")>>)))>>))>>
      [] src = "Q<T,U>=(T,{f:U},B<T>)" ->
            <<Def("Q", <<"T", "U">>,
                  TupleT(<<Name("T"), Inline(StructT(<<Field("f", Name("U"))>>)),
                           NameA("B", <<Name("T")>>)>>))>>
      [] src = "Pair<T>={a:T,b:T}" ->
            <<Def("Pair", <<"T">>, StructT(<<Field("a", Name("T")), Field("b", Name("T"))>>))>>
      [] src = "Choice=<A,B:u32,C::5>" ->
            <<Def("Choice", <<>>,
                  EnumT(<<Variant("A", None, None),
                          Variant("B", Some(Name("u32")), None),
                          Variant("C", None, Some(5))>>))>>
      [] src = "W<T>=T;G<T>=(T,[T],[T;2],<X:T,Y>,{f:T},@T,W<T>)" ->
            <<Def("W", <<"T">>, Alias(Name("T"))),
              Def("G", <<"T">>,
                  TupleT(<<Name("T"),
                           Inline(SeqT(Name("T"))),
                           Inline(ArrayT(Name("T"), 2)),
                           Inline(EnumT(<<Variant("X", Some(Name("T")), None),
                                          Variant("Y", None, None)>>)),
                           Inline(StructT(<<Field("f", Name("T"))>>)),
                           Inline(Compact(Name("T"))),
                           NameA("W", <<Name("T")>>)>>))>>
      [] src = "u32=u8" -> <<Def("u32", <<>>, Primitive("u8"))>>
      [] src = "[u16]" -> <<AnonDef(SeqT(Name("u16")))>>
      [] src = "Msg={id:u32,tag:<Ping,Pong:str>}" ->
            <<Def("Msg", <<>>,
                  StructT(<<Field("id", Name("u32")),
                            Field("tag", Inline(EnumT(<<Variant("Ping", None, None),
                                                        Variant("Pong", Some(Name("str")),
                                                                None)>>)))>>))>>
      [] src = "Big=<X::256,Y:u8:255>" ->
            <<Def("Big", <<>>,
                  EnumT(<<Variant("X", None, Some(256)),
                          Variant("Y", Some(Name("u8")), Some(255))>>))>>
      [] src = "Dup=<A::1,B,C::0,D::0>" ->
            <<Def("Dup", <<>>,
                  EnumT(<<Variant("A", None, Some(1)), Variant("B", None, None),
                          Variant("C", None, Some(0)), Variant("D", None, Some(0))>>))>>

Sources ==
    {"A=B;B=u32", "B=A", "A=A", "Pair<T>={a:T,b:T}",
     "W<T>=T;G<T>=(T,[T],[T;2],<X:T,Y>,{f:T},@T,W<T>)", "u32=u8", "[u16]"}

\* The texts of the scripts that encode and decode.
CodecSources ==
    {"A=B;B=u32", "Pair<T>={a:T,b:T}", "Choice=<A,B:u32,C::5>",
     "Msg={id:u32,tag:<Ping,Pong:str>}", "Big=<X::256,Y:u8:255>", "Dup=<A::1,B,C::0,D::0>"}

\* The texts of the scripts that encode and decode several values at once.
StreamSources == {"Choice=<A,B:u32,C::5>", "Msg={id:u32,tag:<Ping,Pong:str>}"}

\* A text the grammar rejects.
BadSources == {"A=;"}

\* Texts of several statements, with and without `;` between and after them,
\* and texts of one statement that refers to itself.
TopTexts ==
    {"A=A B=A", "A=A;B=A", "A=A;B=A;", "A=A;", "A=A;;B=A", "A=A B=A;", "B=A;;",
     "A=(A)", "A={x:A}", "P<T,U>=(T,U,[U<T>])", "Q<T,U>=(T,{f:U},B<T>)"}

\* What the lexer and the stmt parser make of such a text: the statements,
\* each named by its own text, and the `;` tokens, in order.
TopItems(src) ==
    CASE src = "A=A B=A" -> <<"A=A", "B=A">>
      [] src = "A=A;B=A" -> <<"A=A", ";", "B=A">>
      [] src = "A=A;B=A;" -> <<"A=A", ";", "B=A", ";">>
      [] src = "A=A;" -> <<"A=A", ";">>
      [] src = "A=A;;B=A" -> <<"A=A", ";", ";", "B=A">>
      [] src = "A=A B=A;" -> <<"A=A", "B=A", ";">>
      [] src = "B=A;;" -> <<"B=A", ";", ";">>
      [] src = "A=(A)" -> <<"A=(A)">>
      [] src = "A={x:A}" -> <<"A={x:A}">>
      [] src = "P<T,U>=(T,U,[U<T>])" -> <<"P<T,U>=(T,U,[U<T>])">>
      [] src = "Q<T,U>=(T,{f:U},B<T>)" -> <<"Q<T,U>=(T,{f:U},B<T>)">>

\* stmt.separated_by(just(Op(';')).or_not()).allow_trailing() after a
\* statement, then end(): i is the position of the next token, ast the
\* definitions collected so far.  The separator parser takes a `;` if there
\* is one and succeeds without it.
RECURSIVE ParserAfterItem(_, _, _)
ParserAfterItem(items, i, ast) ==
    LET j == IF i <= Len(items) /\ items[i] = ";" THEN i + 1 ELSE i IN
    IF j <= Len(items) /\ items[j] # ";"
    THEN ParserAfterItem(items, j + 1, ast \o SourceAst(items[j]))
    ELSE IF j > Len(items) THEN [ok |-> TRUE, ast |-> ast]
    ELSE [ok |-> FALSE, ast |-> <<>>]

\* parser(): the first statement, then the separated rest.
ParserTop(items) ==
    IF Len(items) > 0 /\ items[1] # ";" THEN ParserAfterItem(items, 2, SourceAst(items[1]))
    ELSE IF Len(items) = 0 THEN [ok |-> TRUE, ast |-> <<>>]
    ELSE [ok |-> FALSE, ast |-> <<>>]

\* parser::parse_types
ParseTypesSrc(src) ==
    IF src \in Sources \cup CodecSources \cup StreamSources
    THEN [ok |-> TRUE, ast |-> SourceAst(src)]
    ELSE IF src \in TopTexts THEN ParserTop(TopItems(src))
    ELSE [ok |-> FALSE, ast |-> <<>>]

\* --------------------------------------------- parser.rs, character by character

\* The characters of one_of("|=@:;,#()[]{}<>"), text::int(10) and text::ident().
OpChars == {"|", "=", "@", ":", ";", ",", "#", "(", ")", "[", "]", "{", "}", "<", ">"}
DigitChars == {"0", "1", "2", "3", "4", "5", "6", "7", "8", "9"}
IdentStartChars ==
    {"a", "b", "c", "d", "e", "f", "g", "h", "i", "j", "k", "l", "m", "n", "o", "p", "q",
     "r", "s", "t", "u", "v", "w", "x", "y", "z", "A", "B", "C", "T", "U", "X", "Y", "_"}
Whitespace == {" ", "\n"}

DigitValue(c) ==
    CASE c = "0" -> 0 [] c = "1" -> 1 [] c = "2" -> 2 [] c = "3" -> 3 [] c = "4" -> 4
      [] c = "5" -> 5 [] c = "6" -> 6 [] c = "7" -> 7 [] c = "8" -> 8 [] c = "9" -> 9

\* text::ident(): the characters of the identifier that starts before cs[i].
RECURSIVE LexIdent(_, _, _)
LexIdent(cs, i, acc) ==
    IF i <= Len(cs) /\ cs[i] \in IdentStartChars \cup DigitChars
    THEN LexIdent(cs, i + 1, acc \o cs[i])
    ELSE [tok |-> <<"Ident", acc>>, i |-> i]

\* text::int(10) after a first digit that is not 0, parsed as u32.
RECURSIVE LexInt(_, _, _)
LexInt(cs, i, n) ==
    IF i <= Len(cs) /\ cs[i] \in DigitChars
    THEN LexInt(cs, i + 1, n * 10 + DigitValue(cs[i]))
    ELSE [tok |-> <<"Num", n>>, i |-> i]

\* The comment that starts with `//` ends before the next newline.
RECURSIVE CommentEnd(_, _)
CommentEnd(cs, i) == IF i <= Len(cs) /\ cs[i] # "\n" THEN CommentEnd(cs, i + 1) ELSE i

\* lexer(): num.or(op).or(ident), padded by whitespace and comments,
\* repeated to the end of the text.
RECURSIVE LexFrom(_, _, _)
LexFrom(cs, i, toks) ==
    IF i > Len(cs) THEN [ok |-> TRUE, toks |-> toks]
    ELSE IF cs[i] \in Whitespace THEN LexFrom(cs, i + 1, toks)
    ELSE IF cs[i] = "/" /\ i < Len(cs) /\ cs[i + 1] = "/"
    THEN LexFrom(cs, CommentEnd(cs, i + 2), toks)
    ELSE IF cs[i] = "0" THEN LexFrom(cs, i + 1, Append(toks, <<"Num", 0>>))
    ELSE IF cs[i] \in DigitChars
    THEN LexFrom(cs, LexInt(cs, i, 0).i, Append(toks, LexInt(cs, i, 0).tok))
    ELSE IF cs[i] \in OpChars THEN LexFrom(cs, i + 1, Append(toks, <<"Op", cs[i]>>))
    ELSE IF cs[i] \in IdentStartChars
    THEN LexFrom(cs, LexIdent(cs, i, "").i, Append(toks, LexIdent(cs, i, "").tok))
    ELSE [ok |-> FALSE, toks |-> <<>>]

\* The kind of the token at position i, "End" after the last one.
TokKind(toks, i) == IF i <= Len(toks) THEN toks[i][1] ELSE "End"

\* just(Op(c)) at position i
IsOp(toks, i, c) == TokKind(toks, i) = "Op" /\ toks[i][2] = c

\* A parser's failure, and its success with value v and next position i.
NoParse == [ok |-> FALSE, val |-> <<>>, i |-> 0]
Parsed(v, i) == [ok |-> TRUE, val |-> v, i |-> i]

\* tid = select! { Ident(ident) => Id::Name, Num(n) => Id::Num }
Tid(toks, i) ==
    IF TokKind(toks, i) = "Ident" THEN Parsed(Name(toks[i][2]), i + 1)
    ELSE IF TokKind(toks, i) = "Num" THEN Parsed(Num(toks[i][2]), i + 1)
    ELSE NoParse

RECURSIVE TypeParser(_, _)
RECURSIVE Typ(_, _)
RECURSIVE TidsFrom(_, _, _)
RECURSIVE EnumVariantsFrom(_, _, _)
RECURSIVE StructFieldsFrom(_, _, _)

\* typ = tid.or(typedef.map(|t| Id::Type(Box::new(t))))
Typ(toks, i) ==
    IF Tid(toks, i).ok THEN Tid(toks, i)
    ELSE IF TypeParser(toks, i).ok
    THEN Parsed(Inline(TypeParser(toks, i).val), TypeParser(toks, i).i)
    ELSE NoParse

\* tids = typ.separated_by(just(Op(','))).allow_trailing().collect()
TidsFrom(toks, i, acc) ==
    IF ~Typ(toks, i).ok THEN Parsed(acc, i)
    ELSE IF IsOp(toks, Typ(toks, i).i, ",")
    THEN TidsFrom(toks, Typ(toks, i).i + 1, Append(acc, Typ(toks, i).val))
    ELSE Parsed(Append(acc, Typ(toks, i).val), Typ(toks, i).i)

\* enum_variant: the payload after the name, (':' typ?)?, as (Option<Id>, next)
VariantPayload(toks, i) ==
    IF ~IsOp(toks, i, ":") THEN Parsed(None, i)
    ELSE IF Typ(toks, i + 1).ok THEN Parsed(Some(Typ(toks, i + 1).val), Typ(toks, i + 1).i)
    ELSE Parsed(None, i + 1)

\* enum_variant: the index after the payload, (':' num)?
VariantIndex(toks, i) ==
    IF IsOp(toks, i, ":") /\ TokKind(toks, i + 1) = "Num"
    THEN Parsed(Some(toks[i + 1][2]), i + 2)
    ELSE Parsed(None, i)

\* enum_variant.separated_by(just(Op(',')).or(just(Op('|')))).allow_trailing()
EnumVariantsFrom(toks, i, acc) ==
    IF TokKind(toks, i) # "Ident" THEN Parsed(acc, i)
    ELSE LET p == VariantPayload(toks, i + 1)
             x == VariantIndex(toks, p.i)
             v == Variant(toks[i][2], p.val, x.val)
         IN IF IsOp(toks, x.i, ",") \/ IsOp(toks, x.i, "|")
            THEN EnumVariantsFrom(toks, x.i + 1, Append(acc, v))
            ELSE Parsed(Append(acc, v), x.i)

\* struct_field.separated_by(just(Op(','))).allow_trailing()
StructFieldsFrom(toks, i, acc) ==
    IF ~(TokKind(toks, i) = "Ident" /\ IsOp(toks, i + 1, ":") /\ Typ(toks, i + 2).ok)
    THEN Parsed(acc, i)
    ELSE IF IsOp(toks, Typ(toks, i + 2).i, ",")
    THEN StructFieldsFrom(toks, Typ(toks, i + 2).i + 1,
                          Append(acc, Field(toks[i][2], Typ(toks, i + 2).val)))
    ELSE Parsed(Append(acc, Field(toks[i][2], Typ(toks, i + 2).val)), Typ(toks, i + 2).i)

\* `(` tids `)`, `<` variants `>` and `{` fields `}`: the list r must be
\* followed by the closing delimiter c.
Closed(toks, r, c, ty) == IF IsOp(toks, r.i, c) THEN Parsed(ty, r.i + 1) ELSE NoParse

\* seq_def, then array_def, on a text that starts with `[`.
BracketDef(toks, i) ==
    IF ~Typ(toks, i + 1).ok THEN NoParse
    ELSE IF IsOp(toks, Typ(toks, i + 1).i, "]")
    THEN Parsed(SeqT(Typ(toks, i + 1).val), Typ(toks, i + 1).i + 1)
    ELSE IF /\ IsOp(toks, Typ(toks, i + 1).i, ";")
            /\ TokKind(toks, Typ(toks, i + 1).i + 1) = "Num"
            /\ IsOp(toks, Typ(toks, i + 1).i + 2, "]")
    THEN Parsed(ArrayT(Typ(toks, i + 1).val, toks[Typ(toks, i + 1).i + 1][2]),
                Typ(toks, i + 1).i + 3)
    ELSE NoParse

\* type_parser: choice((primitive_def, alias_def, compact_def, seq_def,
\* array_def, tuple_def, enum_def, struct_def))
TypeParser(toks, i) ==
    IF IsOp(toks, i, "#")
    THEN IF TokKind(toks, i + 1) = "Ident" /\ toks[i + 1][2] \in PrimitiveNames
         THEN Parsed(Primitive(toks[i + 1][2]), i + 2) ELSE NoParse
    ELSE IF Tid(toks, i).ok THEN Parsed(Alias(Tid(toks, i).val), i + 1)
    ELSE IF IsOp(toks, i, "@")
    THEN IF Typ(toks, i + 1).ok
         THEN Parsed(Compact(Typ(toks, i + 1).val), Typ(toks, i + 1).i) ELSE NoParse
    ELSE IF IsOp(toks, i, "[") THEN BracketDef(toks, i)
    ELSE IF IsOp(toks, i, "(")
    THEN Closed(toks, TidsFrom(toks, i + 1, <<>>), ")", TupleT(TidsFrom(toks, i + 1, <<>>).val))
    ELSE IF IsOp(toks, i, "<")
    THEN Closed(toks, EnumVariantsFrom(toks, i + 1, <<>>), ">",
                EnumT(EnumVariantsFrom(toks, i + 1, <<>>).val))
    ELSE IF IsOp(toks, i, "{")
    THEN Closed(toks, StructFieldsFrom(toks, i + 1, <<>>), "}",
                StructT(StructFieldsFrom(toks, i + 1, <<>>).val))
    ELSE NoParse

\* stmt = ident.then_ignore(just(Op('='))).or_not().then(ty)
Stmt(toks, i) ==
    IF TokKind(toks, i) = "Ident" /\ IsOp(toks, i + 1, "=")
    THEN IF TypeParser(toks, i + 2).ok
         THEN Parsed(Def(toks[i][2], <<>>, TypeParser(toks, i + 2).val), TypeParser(toks, i + 2).i)
         ELSE NoParse
    ELSE IF TypeParser(toks, i).ok
    THEN Parsed(AnonDef(TypeParser(toks, i).val), TypeParser(toks, i).i)
    ELSE NoParse

\* The statements collected in the reverse of their order.
RECURSIVE StmtsFromReversed(_, _, _)
StmtsFromReversed(toks, i, ast) ==
    IF ~Stmt(toks, i).ok THEN Parsed(ast, i)
    ELSE StmtsFromReversed(toks,
                           IF IsOp(toks, Stmt(toks, i).i, ";")
                           THEN Stmt(toks, i).i + 1 ELSE Stmt(toks, i).i,
                           <<Stmt(toks, i).val>> \o ast)

\* stmt.separated_by(just(Op(';')).or_not()).allow_trailing().collect()
RECURSIVE StmtsFrom(_, _, _)
StmtsFrom(toks, i, ast) ==
    IF ~Stmt(toks, i).ok THEN Parsed(ast, i)
    ELSE StmtsFrom(toks,
                   IF IsOp(toks, Stmt(toks, i).i, ";") THEN Stmt(toks, i).i + 1 ELSE Stmt(toks, i).i,
                   Append(ast, Stmt(toks, i).val))

\* parser(): the statements, then end().
Parser(toks) ==
    IF StmtsFrom(toks, 1, <<>>).i > Len(toks)
    THEN [ok |-> TRUE, ast |-> StmtsFrom(toks, 1, <<>>).val]
    ELSE [ok |-> FALSE, ast |-> <<>>]

\* parser::parse_types(src) on the characters of src
ParserParseTypes(cs) ==
    IF LexFrom(cs, 1, <<>>).ok THEN Parser(LexFrom(cs, 1, <<>>).toks)
    ELSE [ok |-> FALSE, ast |-> <<>>]

\* ------------------------------------------------------------- the scripts

\* Type references the scripts resolve.
TidPool ==
    {Name("A"), Name("B"), Name("u32"), Name("nope"), Name("Pair"),
     Name("G"), Name("W"), Name("[u8]"), Name("Pair<u8>"), Name("0"), Name("A=;"),
     NameA("Pair", <<Name("u8")>>), NameA("Pair", <<Name("u8"), Name("u16")>>),
     NameA("u32", <<Name("u8")>>),
     NameA("A", <<Name("u8")>>), NameA("nope", <<Name("u8")>>),
     NameA("G", <<Name("u8")>>), NameA("W", <<Name("A")>>),
     NameA("W", <<NameA("W", <<Name("u8")>>)>>),
     Num(0), Num(1), NumA(0, <<Name("u8")>>),
     Inline(Alias(Name("A"))),
     Inline(Alias(NameA("Pair", <<Name("u8")>>)))}

RECURSIVE SumDefs(_, _)
SumDefs(h, i) == IF i > Len(h) THEN 0 ELSE Len(h[i].types) + SumDefs(h, i + 1)

TotalDefs == SumDefs(heap, 1)

NoRet == [op |-> "none"]

Idle == ret.op = "none"

Init ==
    /\ heap = <<>>
    /\ ret = NoRet

\* parseTypes(typelist): parse_types_str builds a fresh registry.
ParseTypes(src) ==
    /\ Idle
    /\ Len(heap) < MaxRegs
    /\ LET p == ParseTypesSrc(src) IN
       IF p.ok
       THEN /\ TotalDefs + Len(p.ast) <= MaxDefs
            /\ heap' = Append(heap, RegistryAppend(EmptyRegistry, p.ast))
            /\ ret' = [op |-> "parseTypes", src |-> src, ok |-> TRUE, h |-> Len(heap) + 1]
       ELSE /\ heap' = heap
            /\ ret' = [op |-> "parseTypes", src |-> src, ok |-> FALSE, h |-> 0]

\* appendTypes appending to a copy of the registry the handle denotes.
AppendTypesCopy(h, src) ==
    /\ Idle
    /\ heap' = heap
    /\ ret' = [op |-> "appendTypes", src |-> src, ok |-> ParseTypesSrc(src).ok, h |-> h]

\* appendTypes(type_registry, typelist)
AppendTypes(h, src) ==
    /\ Idle
    /\ LET p == ParseTypesSrc(src) IN
       IF p.ok
       THEN /\ TotalDefs + Len(p.ast) <= MaxDefs
            /\ heap' = [heap EXCEPT ![h] = RegistryAppend(@, p.ast)]
            /\ ret' = [op |-> "appendTypes", src |-> src, ok |-> TRUE, h |-> h]
       ELSE /\ heap' = heap
            /\ ret' = [op |-> "appendTypes", src |-> src, ok |-> FALSE, h |-> h]

\* registry.resolve_type(tid, fallback) on the registry of handle h.
Resolve(h, tid, fallback) ==
    /\ Idle
    /\ ret' = [op |-> "resolve", h |-> h, tid |-> tid, fallback |-> fallback,
               shallow |-> GetTypeShallow(heap[h], tid),
               res |-> ResolveType(heap[h], tid, fallback)]
    /\ UNCHANGED heap

\* encode and encode_all handing the output buffer back whatever happened.
ReturnedPartial(r) == [st |-> r.st, bytes |-> r.out, err |-> r.err, out |-> r.out]

\* What encode and encode_all return for the final state r of the output
\* buffer: Ok(AsBytes(out)), or the error, with which `out` is dropped.
Returned(r) ==
    [st |-> r.st, bytes |-> IF r.st = "ok" THEN r.out ELSE <<>>, err |-> r.err, out |-> r.out]

\* encode(value, tid, type_registry): the bytes, or an error and no bytes;
\* `out` is the output buffer as encode_value left it.
EncodeCall(value, tid, reg) == Returned(EncodeValue(value, tid, reg, <<>>))

\* decode(value, tid, type_registry)
DecodeCall(buf, tid, reg) == DecodeValue(buf, tid, reg, 0)

Encode(h, value, tid) ==
    /\ Idle
    /\ ret' = [op |-> "encode", h |-> h, v |-> value, tid |-> tid,
               res |-> EncodeCall(value, tid, heap[h])]
    /\ UNCHANGED heap

\* The script decodes the bytes encode has just returned, against the same
\* type and registry.
DecodeBack ==
    /\ ret.op = "encode"
    /\ ret.res.st = "ok"
    /\ ret' = [op |-> "roundtrip", h |-> ret.h, v |-> ret.v, tid |-> ret.tid,
               buf |-> ret.res.bytes,
               res |-> DecodeCall(ret.res.bytes, ret.tid, heap[ret.h])]
    /\ UNCHANGED heap

Decode(h, buf, tid) ==
    /\ Idle
    /\ ret' = [op |-> "decode", h |-> h, buf |-> buf, tid |-> tid,
               res |-> DecodeCall(buf, tid, heap[h])]
    /\ UNCHANGED heap

\* FromJsValue for TypeRegistry on a value that is not a handle: undefined
\* is the empty registry, a string is parsed by parse_types_str into a
\* registry of its own.
FromJsValue(arg) ==
    IF arg = JsUndefined THEN [ok |-> TRUE, reg |-> EmptyRegistry]
    ELSE IF ParseTypesSrc(arg[2]).ok
    THEN [ok |-> TRUE, reg |-> RegistryAppend(EmptyRegistry, ParseTypesSrc(arg[2]).ast)]
    ELSE [ok |-> FALSE, reg |-> EmptyRegistry]

\* appendTypes(arg, typelist) with undefined or a text for the registry: the
\* definitions go to the registry made for this call, which is dropped when
\* the call returns.
AppendTypesText(arg, src) ==
    /\ Idle
    /\ ret' = [op |-> "appendTypesText", arg |-> arg, src |-> src,
               ok |-> FromJsValue(arg).ok /\ ParseTypesSrc(src).ok,
               dropped |-> IF FromJsValue(arg).ok /\ ParseTypesSrc(src).ok
                           THEN RegistryAppend(FromJsValue(arg).reg, ParseTypesSrc(src).ast)
                           ELSE EmptyRegistry]
    /\ UNCHANGED heap

\* decode(value, tid, arg) with undefined or a text for the registry.
DecodeText(arg, buf, tid) ==
    /\ Idle
    /\ ret' = [op |-> "decodeText", arg |-> arg, buf |-> buf, tid |-> tid,
               res |-> IF FromJsValue(arg).ok THEN DecodeCall(buf, tid, FromJsValue(arg).reg)
                       ELSE ErrD(buf, "Parse")]
    /\ UNCHANGED heap

RECURSIVE EncodeAllFrom(_, _, _, _, _)

\* encode_all, after encode_value for tids[ind] returned r.
EncodeAllStep(value, tids, reg, ind, r) ==
    IF r.st # "ok" THEN r ELSE EncodeAllFrom(value, tids, reg, r.out, ind + 1)

\* encode_all, with value.index(ind).
EncodeAllAt(value, tids, reg, out, ind, sub) ==
    IF sub.st # "ok" THEN ErrE(out, sub.err)
    ELSE EncodeAllStep(value, tids, reg, ind, EncodeValue(sub.val, tids[ind + 1], reg, out))

\* The loop `for (ind, tid) in tids.iter().enumerate()` of encode_all.
EncodeAllFrom(value, tids, reg, out, ind) ==
    IF ind >= Len(tids) THEN OkE(out)
    ELSE EncodeAllAt(value, tids, reg, out, ind, ValueIndex(value, ind))

\* encodeAll(value, tids, type_registry)
EncodeAllCall(value, tids, reg) == Returned(EncodeAllFrom(value, tids, reg, <<>>, 0))

EncodeAll(h, value, tids) ==
    /\ Idle
    /\ ret' = [op |-> "encodeAll", h |-> h, v |-> value, tids |-> tids,
               res |-> EncodeAllCall(value, tids, heap[h])]
    /\ UNCHANGED heap

RECURSIVE DecodeAllFrom(_, _, _, _, _, _)

\* decode_all putting each decoded value in front of the earlier ones.
DecodeAllStepPrepend(tids, reg, k, acc, cuts, r) ==
    IF r.st # "ok"
    THEN [st |-> r.st, vals |-> <<>>, out |-> acc, buf |-> r.buf, err |-> r.err, cuts |-> cuts]
    ELSE DecodeAllFrom(r.buf, tids, reg, k + 1, <<r.val>> \o acc, Append(cuts, r.buf))

\* decode_all, after decode_valude for tids[k] returned r: `out.push(v)`.
DecodeAllStep(tids, reg, k, acc, cuts, r) ==
    IF r.st # "ok"
    THEN [st |-> r.st, vals |-> <<>>, out |-> acc, buf |-> r.buf, err |-> r.err, cuts |-> cuts]
    ELSE DecodeAllFrom(r.buf, tids, reg, k + 1, Append(acc, r.val), Append(cuts, r.buf))

\* The loop `for tid in tids` of decode_all from type k (1-based): acc is the
\* list `out`, cuts the cursor `buf` as it stood after each value.
DecodeAllFrom(buf, tids, reg, k, acc, cuts) ==
    IF k > Len(tids)
    THEN [st |-> "ok", vals |-> acc, out |-> acc, buf |-> buf, err |-> "", cuts |-> cuts]
    ELSE DecodeAllStep(tids, reg, k, acc, cuts, DecodeValue(buf, tids[k], reg, 0))

\* decodeAll(value, tids, type_registry)
DecodeAllCall(buf, tids, reg) == DecodeAllFrom(buf, tids, reg, 1, <<>>, <<>>)

DecodeAll(h, buf, tids) ==
    /\ Idle
    /\ ret' = [op |-> "decodeAll", h |-> h, buf |-> buf, tids |-> tids,
               res |-> DecodeAllCall(buf, tids, heap[h])]
    /\ UNCHANGED heap

\* The script decodes the bytes encodeAll has just returned, against the same
\* types and registry.
DecodeAllBack ==
    /\ ret.op = "encodeAll"
    /\ ret.res.st = "ok"
    /\ ret' = [op |-> "roundtripAll", h |-> ret.h, v |-> ret.v, tids |-> ret.tids,
               buf |-> ret.res.bytes,
               res |-> DecodeAllCall(ret.res.bytes, ret.tids, heap[ret.h])]
    /\ UNCHANGED heap

\* The script decodes only the first n bytes of what encode has just returned.
DecodeTruncated(n) ==
    /\ ret.op = "encode"
    /\ ret.res.st = "ok"
    /\ n < Len(ret.res.bytes)
    /\ ret' = [op |-> "truncated", h |-> ret.h, tid |-> ret.tid, full |-> ret.res.bytes,
               buf |-> Take(ret.res.bytes, n),
               res |-> DecodeCall(Take(ret.res.bytes, n), ret.tid, heap[ret.h])]
    /\ UNCHANGED heap

\* encode_value reads a property, an element or the entries of the value,
\* which runs the value's getter or proxy trap, when the type resolves to a
\* struct or tuple with members or to an enum.
ReadsValue(ty) ==
    /\ ty.st = "ok"
    /\ \/ ty.ty[1] \in {"Struct", "Tuple"} /\ Len(ty.ty[2]) > 0
       \/ ty.ty[1] = "Enum"

\* encode(value, tid, type_registry) up to the first read of the value:
\* `type_registry.borrow()` is taken and lives until encode_value returns.
EncodeEnter(h, value, tid) ==
    /\ Idle
    /\ ret' = [op |-> "encoding", h |-> h, v |-> value, tid |-> tid, shared |-> h,
               exclusive |-> 0, getter |-> "none",
               reads |-> ReadsValue(ResolveType(heap[h], tid, TRUE))]
    /\ UNCHANGED heap

\* The getter or trap the read runs calls appendTypes(g, src): append_types
\* parses, then takes `type_registry.borrow_mut()`, which panics when the
\* cell is already borrowed, and appends.
GetterAppendTypes(g, src) ==
    /\ ret.op = "encoding"
    /\ ret.reads
    /\ ret.getter = "none"
    /\ IF ~ParseTypesSrc(src).ok
       THEN /\ ret' = [ret EXCEPT !.getter = "err"]
            /\ heap' = heap
       ELSE IF g = ret.shared
       THEN /\ ret' = [op |-> "encode", h |-> ret.h, v |-> ret.v, tid |-> ret.tid,
                       shared |-> ret.shared, exclusive |-> g,
                       res |-> [st |-> "panic", bytes |-> <<>>, err |-> "BorrowMut",
                                out |-> <<>>]]
            /\ heap' = heap
       ELSE /\ TotalDefs + Len(ParseTypesSrc(src).ast) <= MaxDefs
            /\ heap' = [heap EXCEPT ![g] = RegistryAppend(@, ParseTypesSrc(src).ast)]
            /\ ret' = [ret EXCEPT !.getter = "ok"]

\* encode_value runs to its end, the borrow is dropped and encode returns.
EncodeLeave ==
    /\ ret.op = "encoding"
    /\ ret' = [op |-> "encode", h |-> ret.h, v |-> ret.v, tid |-> ret.tid, shared |-> 0,
               exclusive |-> 0, res |-> EncodeCall(ret.v, ret.tid, heap[ret.h])]
    /\ UNCHANGED heap

\* A call that loops forever, overflows the stack or panics never returns.
Hung ==
    /\ ret.op \in {"resolve", "encode", "decode", "roundtrip", "encodeAll", "decodeAll",
                   "roundtripAll", "truncated", "decodeText"}
    /\ ret.res.st \in {"hang", "overflow", "panic"}

\* The host call returns to the script.
Return ==
    /\ ~Idle
    /\ ~Hung
    /\ ret.op # "encoding"
    /\ ret' = NoRet
    /\ UNCHANGED heap

Next ==
    \/ \E src \in Sources \cup BadSources : ParseTypes(src)
    \/ \E h \in DOMAIN heap, src \in Sources \cup BadSources : AppendTypes(h, src)
    \/ \E h \in DOMAIN heap, tid \in TidPool, fallback \in BOOLEAN : Resolve(h, tid, fallback)
    \/ Return

Spec == Init /\ [][Next]_vars

Chars(s) ==
    CASE s = "hi" -> <<104, 105>>
      [] s = "0x0102" -> <<48, 120, 48, 49, 48, 50>>
      [] s = "0102" -> <<48, 49, 48, 50>>
      [] s = "zz" -> <<122, 122>>

N(n) == JsNum(n)
Obj1(k, v) == JsObj(<<<<k, v>>>>)

\* The (value, type name) pairs the scripts encode.
EncodeCases ==
    {<<N(5), "u8">>, <<N(255), "u8">>, <<N(256), "u8">>, <<N(-1), "u8">>, <<N(-1), "i8">>,
     <<N(300), "u16">>, <<N(-200), "i16">>, <<N(70000), "u32">>, <<N(-70000), "i32">>,
     <<N(1), "u64">>, <<N(-2), "i64">>, <<N(3), "u128">>,
     <<JsBool(TRUE), "bool">>, <<JsBool(FALSE), "bool">>, <<N(1), "bool">>,
     <<JsStr(Chars("hi")), "str">>, <<JsStr(<<>>), "str">>, <<N(1), "str">>,
     <<N(0), "@u32">>, <<N(63), "@u32">>, <<N(64), "@u32">>, <<N(16383), "@u32">>,
     <<N(16384), "@u32">>, <<N(1073741823), "@u32">>, <<N(1073741824), "@u32">>,
     <<JsArr(<<>>), "@()">>, <<N(5), "@()">>,
     <<JsU8a(<<1, 2>>), "[u8]">>, <<JsStr(Chars("0x0102")), "[u8]">>,
     <<JsStr(Chars("zz")), "[u8]">>, <<JsArr(<<N(1), N(2)>>), "[u8]">>,
     <<JsArr(<<N(1), N(300)>>), "[u16]">>, <<JsArr(<<>>), "[u16]">>, <<N(1), "[u16]">>,
     <<JsArr(<<N(1), N(300)>>), "(u8,u16)">>, <<JsArr(<<N(1), N(300), N(7)>>), "(u8,u16)">>,
     <<JsArr(<<N(1)>>), "(u8,u16)">>,
     <<JsU8a(<<1, 2>>), "[u8;2]">>, <<JsU8a(<<1>>), "[u8;2]">>,
     <<JsU8a(<<1, 2, 3>>), "[u8;2]">>, <<JsU8a(<<>>), "[u8]">>,
     <<JsArr(<<N(1), N(2)>>), "[u8;2]">>, <<JsStr(Chars("0102")), "[u8;2]">>,
     <<JsArr(<<N(1), N(2)>>), "[u16;2]">>, <<JsArr(<<N(1)>>), "[u16;2]">>,
     <<Obj1("A", JsNull), "Choice">>, <<Obj1("B", N(7)), "Choice">>,
     <<Obj1("C", JsNull), "Choice">>, <<Obj1("A", N(5)), "Choice">>,
     <<Obj1("E", N(1)), "Choice">>, <<Obj1("B", JsStr(Chars("hi"))), "Choice">>,
     <<JsObj(<<<<"E", N(1)>>, <<"B", N(7)>>>>), "Choice">>,
     <<JsObj(<<<<"id", N(1)>>, <<"tag", Obj1("Pong", JsStr(Chars("hi")))>>>>), "Msg">>,
     <<JsObj(<<<<"tag", Obj1("Ping", JsNull)>>, <<"id", N(2)>>>>), "Msg">>,
     <<JsObj(<<<<"id", N(1)>>, <<"tag", Obj1("Ping", JsNull)>>, <<"x", N(1)>>>>), "Msg">>,
     <<JsObj(<<<<"id", N(1)>>>>), "Msg">>,
     <<JsObj(<<<<"a", N(1)>>, <<"b", N(2)>>>>), "Pair<u8>">>,
     <<N(7), "A">>,
     <<Obj1("X", JsNull), "Big">>, <<Obj1("Y", N(3)), "Big">>,
     <<Obj1("A", JsNull), "Dup">>, <<Obj1("B", JsNull), "Dup">>,
     <<Obj1("C", JsNull), "Dup">>, <<Obj1("D", JsNull), "Dup">>}

\* The (bytes, type name) pairs the scripts decode.
DecodeCases ==
    {<<<<0>>, "Choice">>, <<<<1, 7, 0, 0, 0>>, "Choice">>, <<<<1, 7>>, "Choice">>,
     <<<<2>>, "Choice">>, <<<<3>>, "Choice">>, <<<<5>>, "Choice">>, <<<<>>, "Choice">>,
     <<<<0>>, "Dup">>, <<<<1>>, "Dup">>, <<<<2>>, "Dup">>, <<<<3>>, "Dup">>,
     <<<<0>>, "Big">>, <<<<1, 9>>, "Big">>, <<<<255, 9>>, "Big">>,
     <<<<1, 0, 0, 0, 1, 8, 104, 105>>, "Msg">>, <<<<1, 0, 0, 0, 2>>, "Msg">>,
     <<<<2, 0>>, "bool">>, <<<<8, 1>>, "[u8]">>, <<<<255>>, "i8">>}

NextCodec ==
    \/ \E src \in CodecSources \cup BadSources : ParseTypes(src)
    \/ \E h \in DOMAIN heap, src \in CodecSources \cup BadSources : AppendTypes(h, src)
    \/ \E h \in DOMAIN heap, c \in EncodeCases : Encode(h, c[1], Name(c[2]))
    \/ DecodeBack
    \/ \E h \in DOMAIN heap, c \in DecodeCases : Decode(h, c[1], Name(c[2]))
    \/ Return

\* The scripts that encode and decode.
SpecCodec == Init /\ [][NextCodec]_vars

Msg1 == JsObj(<<<<"id", N(1)>>, <<"tag", Obj1("Pong", JsStr(Chars("hi")))>>>>)

\* The (values, type names) pairs the scripts pass to encodeAll.
EncodeAllCases ==
    {<<JsArr(<<Msg1, N(5)>>), <<"Msg", "u8">>>>,
     <<JsArr(<<JsObj(<<<<"id", N(1)>>>>), N(5)>>), <<"Msg", "u8">>>>,
     <<JsArr(<<JsU8a(<<1, 2>>), N(300)>>), <<"[u8]", "u16">>>>,
     <<JsArr(<<JsStr(Chars("0102")), N(300)>>), <<"[u8]", "u16">>>>,
     <<JsArr(<<N(1), N(2), N(3)>>), <<"u8", "u8">>>>,
     <<JsArr(<<N(1), N(2)>>), <<"u8", "u8">>>>,
     <<JsArr(<<N(1)>>), <<"u8", "u8">>>>,
     <<JsArr(<<N(1), N(300)>>), <<"u16", "u8">>>>,
     <<JsArr(<<Obj1("B", N(7)), JsArr(<<N(1), N(300)>>)>>), <<"Choice", "[u16]">>>>,
     <<JsArr(<<>>), <<>>>>,
     <<N(1), <<"u8">>>>}

\* The (bytes, type names) pairs the scripts pass to decodeAll.
DecodeAllCases ==
    {<<<<1, 0, 0, 0, 1, 8, 104, 105, 5>>, <<"Msg", "u8">>>>,
     <<<<1, 0, 0, 0, 1, 8, 104, 105>>, <<"Msg", "u8">>>>,
     <<<<1, 0, 0, 0, 0, 5, 9>>, <<"Msg", "u8">>>>,
     <<<<1, 44, 1>>, <<"u8", "u16">>>>,
     <<<<1, 44>>, <<"u8", "u16">>>>,
     <<<<1, 2, 3>>, <<"u8", "u8">>>>,
     <<<<5, 3>>, <<"Choice", "Choice">>>>,
     <<<<9>>, <<>>>>}

\* The (value, type name) pairs whose encodings the scripts cut short.
StreamCases ==
    {<<Msg1, "Msg">>, <<Obj1("B", N(7)), "Choice">>, <<Obj1("A", JsNull), "Choice">>,
     <<JsArr(<<N(1), N(300)>>), "[u16]">>, <<JsU8a(<<1, 2>>), "[u8]">>,
     <<JsU8a(<<1, 2>>), "[u8;2]">>, <<N(16384), "@u32">>, <<JsStr(Chars("hi")), "str">>,
     <<JsArr(<<N(1), N(300)>>), "(u8,u16)">>, <<N(-200), "i16">>, <<JsBool(TRUE), "bool">>,
     <<JsArr(<<>>), "@()">>}

\* The (value, type name) pairs the scripts encode against Compact types.
CompactEncodeCases ==
    {<<N(5), lit>> : lit \in CompactLiterals \cup {"@u32", "@()"}}
        \cup {<<N(300), "@u8">>, <<N(-1), "@u16">>, <<N(-1), "@i16">>, <<N(300), "@u16">>}

\* The (bytes, type name) pairs the scripts decode against Compact types.
CompactDecodeCases ==
    {<<(<<20, 9>>), lit>> : lit \in CompactLiterals \cup {"@u32", "@()"}}
        \cup {<<(<<177, 4>>), "@u8">>, <<(<<177, 4>>), "@u16">>, <<(<<>>), "@i8">>,
              <<(<<>>), "@u8">>, <<(<<>>), "@()">>}

Names(ns) == [i \in 1..Len(ns) |-> Name(ns[i])]

NextStream ==
    \/ \E src \in StreamSources \cup BadSources : ParseTypes(src)
    \/ \E h \in DOMAIN heap, src \in StreamSources \cup BadSources : AppendTypes(h, src)
    \/ \E h \in DOMAIN heap, c \in StreamCases \cup CompactEncodeCases :
          Encode(h, c[1], Name(c[2]))
    \/ \E h \in DOMAIN heap, c \in CompactDecodeCases : Decode(h, c[1], Name(c[2]))
    \/ \E n \in 0..MaxCut : DecodeTruncated(n)
    \/ \E h \in DOMAIN heap, c \in EncodeAllCases : EncodeAll(h, c[1], Names(c[2]))
    \/ DecodeAllBack
    \/ \E h \in DOMAIN heap, c \in DecodeAllCases : DecodeAll(h, c[1], Names(c[2]))
    \/ Return

\* References with two type arguments the scripts resolve.
GenericTids ==
    {NameA(n, <<a, b>>) : n \in {"P", "Q"}, a \in {Name("U"), Name("u8")},
                          b \in {Name("T"), Name("u16")}}

NextParser ==
    \/ \E src \in TopTexts \cup BadSources : ParseTypes(src)
    \/ \E h \in DOMAIN heap, src \in TopTexts \cup BadSources : AppendTypes(h, src)
    \/ \E h \in DOMAIN heap, tid \in {Name("A"), Name("B")} \cup GenericTids :
          Resolve(h, tid, FALSE)
    \/ \E h \in DOMAIN heap, buf \in {<<>>, <<1, 2>>} : Decode(h, buf, Name("A"))
    \/ Return

\* The scripts that pass texts of several statements or of a statement that
\* refers to itself, and resolve and decode against the names they define.
SpecParser == Init /\ [][NextParser]_vars

\* The texts of the scripts that pass a registry by handle or as a text.
HandleSources == {"A=B;B=u32", "u32=u8", "Choice=<A,B:u32,C::5>", "A=;"}

\* The registry arguments that are not handles.
TextArgs == {JsUndefined} \cup {<<"str", src>> : src \in HandleSources}

\* The buffers and the types these scripts decode.
HandleBufs == {<<1, 0, 0, 0>>, <<5, 3>>}
HandleTids == {Name("A"), Name("Choice"), Name("u32")}

NextHandles ==
    \/ \E src \in HandleSources : ParseTypes(src)
    \/ \E h \in DOMAIN heap, src \in HandleSources : AppendTypes(h, src)
    \/ \E arg \in TextArgs, src \in HandleSources : AppendTypesText(arg, src)
    \/ \E h \in DOMAIN heap, buf \in HandleBufs, tid \in HandleTids : Decode(h, buf, tid)
    \/ \E arg \in TextArgs, buf \in HandleBufs, tid \in HandleTids : DecodeText(arg, buf, tid)
    \/ Return

\* The scripts that pass a registry by handle, as a text or not at all.
SpecHandles == Init /\ [][NextHandles]_vars

\* ------------------------------------------------ the scripts of the grammar

\* The most `name=type` definitions in a text.
MaxStmts == 2

\* The types the definitions are given, each written as its characters and
\* as the shape its leading delimiter names.
TypeShapes ==
    {[src |-> <<"[", "u", "8", ";", "3", "2", "]">>,
      ty |-> ArrayT(Name("u8"), 32)],
     [src |-> <<"[", "u", "8", "]">>,
      ty |-> SeqT(Name("u8"))],
     [src |-> <<"(", "u", "8", ",", "f", "o", "o", ")">>,
      ty |-> TupleT(<<Name("u8"), Name("foo")>>)],
     [src |-> <<"f", "o", "o">>,
      ty |-> Alias(Name("foo"))],
     [src |-> <<"7">>,
      ty |-> Alias(Num(7))],
     [src |-> <<"(", ")">>,
      ty |-> TupleT(<<>>)],
     [src |-> <<"[", "0", ";", "2", "]">>,
      ty |-> ArrayT(Num(0), 2)]}

\* The names the definitions are given.
DefNames == {[src |-> <<"f", "o", "o">>, name |-> "foo"], [src |-> <<"b", "a", "r">>, name |-> "bar"]}

\* The `name=type` definitions, and the texts of up to MaxStmts of them.
GrammarDefs ==
    {[src |-> n.src \o <<"=">> \o t.src, name |-> n.name, ty |-> t.ty] : n \in DefNames, t \in TypeShapes}
DefLists == UNION {[1..k -> GrammarDefs] : k \in 1..MaxStmts}

\* The definitions of ds from the i-th on, with `;` between them.
RECURSIVE JoinDefs(_, _)
JoinDefs(ds, i) ==
    IF i > Len(ds) THEN <<>>
    ELSE IF i = Len(ds) THEN ds[i].src
    ELSE ds[i].src \o <<";">> \o JoinDefs(ds, i + 1)

\* Texts of other forms: an enum, a struct, two statements without a name or
\* a `;`, a nested type, a comment, and texts the lexer or the parser rejects.
OtherTexts ==
    {<<"A", "=", "<", "A", ",", "B", ":", "u", "3", "2", ",", "C", ":", ":", "5", ">">>,
     <<"A", "=", "{", "x", ":", "A", ",", "}">>,
     <<"A", "=", "@", "u", "8", " ", "#", "u", "8">>,
     <<"f", "o", "o", "=", "[", "[", "u", "8", "]", ";", "2", "]">>,
     <<"A", "=", ";">>,
     <<"$">>,
     <<"f", "o", "o", "=", "[", "u", "8", ";", "3", "2", "]", " ", "/", "/", " ", "c", "\n", "b", "a", "r", "=", "(", "u", "8", ",", "f", "o", "o", ")">>,
     <<"f", "o", "o", "=", "(", "u", "8", ",", ",", ")">>,
     <<"a", "=", "0", "1">>,
     <<"[", "u", "8", ";", "3", "2">>}

\* A script holds a text, assembled from definitions or given whole.
InitGrammar ==
    /\ heap = <<>>
    /\ ret \in {[op |-> "text", defs |-> ds, text |-> JoinDefs(ds, 1)] : ds \in DefLists}
              \cup {[op |-> "text", defs |-> <<>>, text |-> t] : t \in OtherTexts}

\* parser::parse_types(text)
ParseText ==
    /\ ret.op = "text"
    /\ ret' = [op |-> "parsed", defs |-> ret.defs, text |-> ret.text,
               res |-> ParserParseTypes(ret.text)]
    /\ UNCHANGED heap

NextGrammar == ParseText

\* The parser applied to the texts.
SpecGrammar == InitGrammar /\ [][NextGrammar]_vars

NextReentrant ==
    \/ \E src \in StreamSources \cup BadSources : ParseTypes(src)
    \/ \E h \in DOMAIN heap, src \in StreamSources \cup BadSources : AppendTypes(h, src)
    \/ \E h \in DOMAIN heap, c \in StreamCases : EncodeEnter(h, c[1], Name(c[2]))
    \/ \E g \in DOMAIN heap, src \in StreamSources \cup BadSources : GetterAppendTypes(g, src)
    \/ EncodeLeave
    \/ Return

\* The scripts whose values call appendTypes from a getter while they are
\* being encoded.
SpecReentrant == Init /\ [][NextReentrant]_vars

\* The scripts that encode and decode lists of values and cut buffers short.
SpecStream == Init /\ [][NextStream]_vars

\* ================================================================== claims

\* The registry the last call was made on.
RetReg == heap[ret.h]

\* The definition a Name or Num reference selects in reg, if any.
SelectedDef(reg, tid) ==
    IF tid.info[1] = "Name"
    THEN IF tid.info[2] \in DOMAIN reg.lookup /\ reg.lookup[tid.info[2]] < Len(reg.types)
         THEN Some(reg.types[reg.lookup[tid.info[2]] + 1]) ELSE None
    ELSE IF tid.info[1] = "Num"
    THEN IF tid.info[2] < Len(reg.types) THEN Some(reg.types[tid.info[2] + 1]) ELSE None
    ELSE None

\* The name a plain, argument-free alias definition of name n forwards to.
AliasTarget(reg, n) ==
    LET d == SelectedDef(reg, Name(n)) IN
    IF /\ IsSome(d)
       /\ Len(d[1].name.type_params) = 0
       /\ IsAlias(d[1].ty)
       /\ d[1].ty[2].info[1] = "Name"
       /\ Len(d[1].ty[2].type_args) = 0
    THEN Some(d[1].ty[2].info[2]) ELSE None

\* Following alias definitions from name n for at least one and at most k
\* steps arrives at name target.
RECURSIVE AliasReaches(_, _, _, _)
AliasReaches(reg, n, target, k) ==
    /\ k > 0
    /\ IsSome(AliasTarget(reg, n))
    /\ \/ AliasTarget(reg, n)[1] = target
       \/ AliasReaches(reg, AliasTarget(reg, n)[1], target, k - 1)

OnAliasCycle(reg, n) == AliasReaches(reg, n, n, Len(reg.types))

\* Equality of dynamic values: arrays element by element, objects property
\* by property whatever the property order.
RECURSIVE SameValue(_, _)
SameValue(a, b) ==
    /\ a[1] = b[1]
    /\ CASE a[1] = "arr" ->
                /\ Len(a[2]) = Len(b[2])
                /\ \A i \in 1..Len(a[2]) : SameValue(a[2][i], b[2][i])
         [] a[1] = "obj" ->
                /\ Len(a[2]) = Len(b[2])
                /\ \A i \in 1..Len(a[2]) : \E j \in 1..Len(b[2]) :
                      a[2][i][1] = b[2][j][1] /\ SameValue(a[2][i][2], b[2][j][2])
         [] OTHER -> a = b

\* The discriminant encode emits for variant i (1-based) of an enum.
DiscOf(variants, i) == IF IsSome(variants[i][3]) THEN variants[i][3][1] ELSE i - 1

\* No two variants share a name or a discriminant.
DistinctVariants(variants) ==
    \A i, j \in 1..Len(variants) :
        i # j => variants[i][1] # variants[j][1] /\ DiscOf(variants, i) # DiscOf(variants, j)

\* v has the form the decoder produces for tid: a byte buffer for a sequence
\* or array of u8, an array of exactly the declared elements otherwise, an
\* object of exactly the declared fields for a struct, a single-key object
\* (null for a variant without payload) for an enum whose variants are
\* distinct, the empty array for the compact unit.
RECURSIVE CanonicalFor(_, _, _)
CanonicalFor(v, tid, reg) ==
    LET rt == ResolveType(reg, tid, TRUE) IN
    /\ rt.st = "ok"
    /\ LET t == rt.ty IN
       CASE t[1] = "Primitive" ->
                v[1] = (IF t[2] \in IntPrims THEN "num" ELSE t[2])
         [] t[1] = "Compact" ->
                LET e == ResolveType(reg, t[2], FALSE) IN
                /\ e.st = "ok"
                /\ IF e.ty[1] = "Primitive" THEN v[1] = "num" ELSE v = JsArr(<<>>)
         [] t[1] \in {"Seq", "Array"} ->
                LET e == ResolveType(reg, t[2], FALSE) IN
                /\ e.st = "ok"
                /\ IF e.ty = Primitive("u8") THEN v[1] = "u8a"
                   ELSE /\ v[1] = "arr"
                        /\ \A i \in 1..Len(v[2]) : CanonicalFor(v[2][i], t[2], reg)
         [] t[1] = "Tuple" ->
                /\ v[1] = "arr"
                /\ Len(v[2]) = Len(t[2])
                /\ \A i \in 1..Len(v[2]) : CanonicalFor(v[2][i], t[2][i], reg)
         [] t[1] = "Enum" ->
                /\ v[1] = "obj"
                /\ Len(v[2]) = 1
                /\ DistinctVariants(t[2])
                /\ \A i \in 1..Len(t[2]) :
                      t[2][i][1] = v[2][1][1] =>
                          IF IsSome(t[2][i][2])
                          THEN CanonicalFor(v[2][1][2], t[2][i][2][1], reg)
                          ELSE v[2][1][2] = JsNull
         [] t[1] = "Struct" ->
                /\ v[1] = "obj"
                /\ Len(v[2]) = Len(t[2])
                /\ \A i, j \in 1..Len(t[2]) : i # j => t[2][i][1] # t[2][j][1]
                /\ \A i \in 1..Len(t[2]) : \E j \in 1..Len(v[2]) :
                      /\ v[2][j][1] = t[2][i][1]
                      /\ CanonicalFor(v[2][j][2], t[2][i][2], reg)
         [] t[1] = "Alias" -> FALSE

\* C1 as claimed: decoding what encode returned for v yields a value equal
\* to v, for every value encode accepts.
C1_RoundTrip ==
    ret.op = "roundtrip" => ret.res.st = "ok" /\ SameValue(ret.res.val, ret.v)

\* C1 as amended: decoding what encode returned for v yields a value equal to
\* v when v has the form the decoder produces for the type.
C1_RoundTripCanonical ==
    (ret.op = "roundtrip" /\ CanonicalFor(ret.v, ret.tid, RetReg))
    => ret.res.st = "ok" /\ SameValue(ret.res.val, ret.v)

\* C1 witness: a struct holding an enum with a string payload went through
\* encode and decode.
C1_Witness ==
    /\ ret.op = "roundtrip"
    /\ ret.tid = Name("Msg")
    /\ CanonicalFor(ret.v, ret.tid, RetReg)
    /\ ret.buf = <<1, 0, 0, 0, 1, 8, 104, 105>>
    /\ ret.res.st = "ok"

\* C2: resolving a reference that lies on an alias cycle returns a resolution
\* error (the call terminates, and not with a shape).
C2_AliasCycleFails ==
    (/\ ret.op = "resolve"
     /\ ret.tid.info[1] = "Name"
     /\ Len(ret.tid.type_args) = 0
     /\ OnAliasCycle(RetReg, ret.tid.info[2]))
    => ret.res.st = "err"

\* C3: a successful resolve_type never returns an Alias shape, with fallback
\* on or off and for Name, Num and inline Type references; A of `A=B;B=u32`
\* resolves to the primitive u32.
C3_ResolvedNeverAlias ==
    ret.op = "resolve" =>
        /\ ret.res.st = "ok" => ~IsAlias(ret.res.ty)
        /\ (RetReg.types = SourceAst("A=B;B=u32") /\ ret.tid = Name("A"))
              => ret.res = OkT(Primitive("u32"))

\* C3 witness: a two-link alias chain was chased to its end.
C3_Witness ==
    /\ ret.op = "resolve"
    /\ ret.tid = Name("A")
    /\ RetReg.types = SourceAst("A=B;B=u32")
    /\ ret.res = OkT(Primitive("u32"))

\* The variant (1-based, 0 for none) the index-then-scan rule selects for tag.
ExpectedVariant(variants, tag) ==
    LET scan == {i \in 1..Len(variants) :
                    IsSome(variants[i][3]) /\ variants[i][3][1] = tag} IN
    IF tag + 1 \in 1..Len(variants) /\ (IsNone(variants[tag + 1][3]) \/ tag + 1 \in scan)
    THEN tag + 1
    ELSE IF scan # {} THEN CHOOSE i \in scan : \A j \in scan : i <= j
    ELSE 0

RetType == ResolveType(RetReg, ret.tid, TRUE)

\* C4: decoding against an enum selects the variant for the tag byte by the
\* index-then-scan rule and yields {name: payload or null}, or fails with
\* 'Unknown variant' when the rule selects none; byte 5 against
\* `<A,B:u32,C::5>` yields {C: null}.
C4_TagLookup ==
    (/\ ret.op = "decode"
     /\ Len(ret.buf) > 0
     /\ RetType.st = "ok"
     /\ RetType.ty[1] = "Enum")
    => LET vs == RetType.ty[2]
           k == ExpectedVariant(vs, ret.buf[1]) IN
       /\ IF k = 0 THEN ret.res.st = "err" /\ ret.res.err = "UnknownVariant"
          ELSE IF IsNone(vs[k][2])
          THEN ret.res = OkD(Obj1(vs[k][1], JsNull), Drop(ret.buf, 1))
          ELSE LET p == DecodeValue(Drop(ret.buf, 1), vs[k][2][1], RetReg, 1) IN
               IF p.st = "ok" THEN ret.res = OkD(Obj1(vs[k][1], p.val), p.buf)
               ELSE ret.res.st # "ok"
       /\ (vs = SourceAst("Choice=<A,B:u32,C::5>")[1].ty[2] /\ ret.buf = <<5>>)
             => ret.res.val = Obj1("C", JsNull)

\* C4 witness: no variant at position 5, the scan finds C.
C4_Witness ==
    /\ ret.op = "decode"
    /\ ret.tid = Name("Choice")
    /\ ret.buf = <<5>>
    /\ ret.res.st = "ok"
    /\ ret.res.val = Obj1("C", JsNull)

\* C5: encoding a single-key object whose key names variant i of an enum
\* emits the variant's discriminant (the explicit one, else the declaration
\* index) as one byte, then the payload's encoding iff the variant has a
\* payload type; a discriminant above 255 is an error and nothing is written.
C5_EnumDiscriminant ==
    (/\ ret.op = "encode"
     /\ RetType.st = "ok"
     /\ RetType.ty[1] = "Enum"
     /\ ret.v[1] = "obj"
     /\ Len(ret.v[2]) = 1
     /\ \E i \in 1..Len(RetType.ty[2]) : RetType.ty[2][i][1] = ret.v[2][1][1])
    => LET vs == RetType.ty[2]
           i == CHOOSE i \in 1..Len(vs) :
                    vs[i][1] = ret.v[2][1][1] /\ \A j \in 1..(i - 1) : vs[j][1] # ret.v[2][1][1]
           disc == DiscOf(vs, i) IN
       IF disc > 255
       THEN ret.res.st = "err" /\ ret.res.out = <<>> /\ ret.res.bytes = <<>>
       ELSE IF IsNone(vs[i][2])
       THEN ret.res.st = "ok" /\ ret.res.bytes = <<disc>>
       ELSE LET p == EncodeValue(ret.v[2][1][2], vs[i][2][1], RetReg, <<>>) IN
            IF p.st = "ok" THEN ret.res.st = "ok" /\ ret.res.bytes = <<disc>> \o p.out
            ELSE ret.res.st # "ok" /\ ret.res.bytes = <<>>

\* C5 witness: a discriminant that does not fit a byte was refused.
C5_Witness ==
    /\ ret.op = "encode"
    /\ ret.tid = Name("Big")
    /\ ret.v = Obj1("X", JsNull)
    /\ ret.res.st = "err"
    /\ ret.res.err = "VariantIndexTooLarge"
    /\ ret.res.out = <<>>

\* Some Id inside the type shape (or the id) is the bare or applied name p.
RECURSIVE TypeMentions(_, _), IdMentions(_, _)
IdMentions(id, p) ==
    \/ id.info[1] = "Name" /\ id.info[2] = p
    \/ id.info[1] = "Type" /\ TypeMentions(id.info[2], p)
    \/ \E i \in 1..Len(id.type_args) : IdMentions(id.type_args[i], p)
TypeMentions(ty, p) ==
    CASE ty[1] = "Primitive" -> FALSE
      [] ty[1] \in {"Compact", "Seq", "Array", "Alias"} -> IdMentions(ty[2], p)
      [] ty[1] = "Tuple" -> \E i \in 1..Len(ty[2]) : IdMentions(ty[2][i], p)
      [] ty[1] = "Enum" ->
            \E i \in 1..Len(ty[2]) : IsSome(ty[2][i][2]) /\ IdMentions(ty[2][i][2][1], p)
      [] ty[1] = "Struct" -> \E i \in 1..Len(ty[2]) : IdMentions(ty[2][i][2], p)

\* C6: after a reference with type arguments to a generic definition has been
\* resolved, no parameter name of that definition remains in the shape.
C6_NoParamRemains ==
    (/\ ret.op = "resolve"
     /\ Len(ret.tid.type_args) > 0
     /\ IsSome(SelectedDef(RetReg, ret.tid))
     /\ ret.shallow.st = "ok")
    => \A i \in 1..Len(SelectedDef(RetReg, ret.tid)[1].name.type_params) :
          ~TypeMentions(ret.shallow.ty, SelectedDef(RetReg, ret.tid)[1].name.type_params[i])

\* C7: resolving a Name or Num reference to a registered definition with k
\* parameters while supplying m arguments fails with a parameter-count error
\* when m # k, and yields the definition's own shape when m = k = 0.
C7_ParamCountExact ==
    (ret.op = "resolve" /\ IsSome(SelectedDef(RetReg, ret.tid))) =>
        LET def == SelectedDef(RetReg, ret.tid)[1]
            k == Len(def.name.type_params)
            m == Len(ret.tid.type_args) IN
        /\ m # k => ret.res = ErrT("ParamCount")
        /\ (m = 0 /\ k = 0) => ret.shallow = OkT(def.ty)

\* C8: a Name reference with type arguments resolves successfully only if the
\* name is registered as a generic definition with that many parameters.
C8_ArgsNeedGeneric ==
    (/\ ret.op = "resolve"
     /\ ret.tid.info[1] = "Name"
     /\ Len(ret.tid.type_args) > 0
     /\ ret.res.st = "ok")
    => /\ IsSome(SelectedDef(RetReg, ret.tid))
       /\ Len(SelectedDef(RetReg, ret.tid)[1].name.type_params) = Len(ret.tid.type_args)

IsPrefix(s, t) == Len(s) <= Len(t) /\ \A i \in 1..Len(s) : s[i] = t[i]

\* C9: a step never removes a registry, never removes or changes a definition
\* and never moves one to another index, so every index that resolved before
\* the step resolves to the same definition after it.
C9_AppendOnly ==
    [][\A h \in DOMAIN heap :
          /\ h \in DOMAIN heap'
          /\ IsPrefix(heap[h].types, heap'[h].types)
          /\ \A i \in 0..(Len(heap[h].types) - 1) :
                GetTypeShallow(heap'[h], Num(i)) = GetTypeShallow(heap[h], Num(i))]_vars

\* C9 witness: appendTypes has added definitions to a registry that already
\* held some.
C9_Witness ==
    /\ ret.op = "appendTypes"
    /\ ret.ok
    /\ Len(RetReg.types) > Len(SourceAst(ret.src))
    /\ Len(SourceAst(ret.src)) > 0

NamedAt(reg, i, n) == reg.types[i].name.name = Some(n)

\* C10: the lookup holds exactly the names some definition carries; each maps
\* to the index of the last definition of that name, which is in bounds.
C10_LookupLastWins ==
    \A h \in DOMAIN heap :
        LET reg == heap[h] IN
        /\ \A i \in 1..Len(reg.types) :
              IsSome(reg.types[i].name.name) => reg.types[i].name.name[1] \in DOMAIN reg.lookup
        /\ \A n \in DOMAIN reg.lookup :
              /\ reg.lookup[n] >= 0
              /\ reg.lookup[n] < Len(reg.types)
              /\ NamedAt(reg, reg.lookup[n] + 1, n)
              /\ \A j \in 1..Len(reg.types) : j > reg.lookup[n] + 1 => ~NamedAt(reg, j, n)

\* C10 witness: a name defined twice, with an anonymous definition beside it.
C10_Witness ==
    \E h \in DOMAIN heap :
        /\ \E i, j \in 1..Len(heap[h].types) :
              /\ i < j
              /\ IsSome(heap[h].types[i].name.name)
              /\ heap[h].types[i].name.name = heap[h].types[j].name.name
              /\ heap[h].lookup[heap[h].types[i].name.name[1]] = j - 1
        /\ \E i \in 1..Len(heap[h].types) : IsNone(heap[h].types[i].name.name)

\* The resolved element type of the sequence or array ret.tid names.
RetElem == ResolveType(RetReg, RetType.ty[2], FALSE)

\* C11: a byte buffer or hex string b encoded against an array of n u8 gives
\* exactly b when Len(b) = n and a length error with nothing written
\* otherwise; against a sequence of u8 it gives compact(Len(b)) then b.
C11_ByteFastPath ==
    (/\ ret.op = "encode"
     /\ RetType.st = "ok"
     /\ RetType.ty[1] \in {"Seq", "Array"}
     /\ RetElem = OkT(Primitive("u8"))
     /\ ret.v[1] \in {"u8a", "str"}
     /\ U8aOrHex(ret.v)[1].st = "ok")
    => LET b == U8aOrHex(ret.v)[1].bytes IN
       /\ RetType.ty[1] = "Array" =>
             IF Len(b) = RetType.ty[3]
             THEN ret.res.st = "ok" /\ ret.res.bytes = b
             ELSE /\ ret.res.st = "err"
                  /\ ret.res.err = "ArrayLength"
                  /\ ret.res.out = <<>>
       /\ RetType.ty[1] = "Seq" =>
             ret.res.st = "ok" /\ ret.res.bytes = CompactEncode(Len(b)) \o b
       /\ (ret.v = JsU8a(<<1, 2>>) /\ RetType.ty[1] = "Seq") => ret.res.bytes = <<8, 1, 2>>
       /\ (ret.v = JsStr(Chars("0102")) /\ RetType.ty[1] = "Array")
             => ret.res.bytes = <<1, 2>>

\* C11 witness: a three-byte buffer was refused for [u8;2].
C11_Witness ==
    /\ ret.op = "encode"
    /\ ret.tid = Name("[u8;2]")
    /\ ret.v = JsU8a(<<1, 2, 3>>)
    /\ ret.res.st = "err"
    /\ ret.res.err = "ArrayLength"
    /\ ret.res.out = <<>>

IsSuffix(s, t) == Len(s) <= Len(t) /\ s = Drop(t, Len(t) - Len(s))

\* The cursors of a decodeAll call: the input, then the buffer left after each
\* decoded value, then the buffer the call stopped at.
Cursors == <<ret.buf>> \o ret.res.cuts \o <<ret.res.buf>>

\* C12: a decode only moves its cursor forward, so what is left of the buffer
\* when it returns or fails is a suffix of what it was given, and in decodeAll
\* the buffer left after each value is a suffix of the one left before it; a
\* decode of an encoding cut short at any length fails with "unexpected end of
\* buffer" and gives no value, and a decode of the whole encoding consumes it
\* to the last byte.
C12_CursorAdvances ==
    /\ (ret.op \in {"decode", "roundtrip", "truncated"} /\ ret.res.st \in {"ok", "err"})
          => IsSuffix(ret.res.buf, ret.buf)
    /\ (ret.op \in {"decodeAll", "roundtripAll"} /\ ret.res.st \in {"ok", "err"})
          => /\ Len(ret.res.cuts) <= Len(ret.tids)
             /\ \A i \in 1..(Len(Cursors) - 1) : IsSuffix(Cursors[i + 1], Cursors[i])
    /\ ret.op = "truncated"
          => /\ ret.res.st = "err"
             /\ ret.res.err = "UnexpectedEnd"
             /\ ret.res.val = JsUndefined
    /\ (ret.op = "roundtrip" /\ ret.res.st = "ok") => ret.res.buf = <<>>

\* C12 witness: the encoding of a Msg cut after the length prefix of its
\* string; the decode has read the id and the tag and fails on the string.
C12_Witness ==
    /\ ret.op = "truncated"
    /\ ret.tid = Name("Msg")
    /\ ret.buf = <<1, 0, 0, 0, 1, 8>>
    /\ ret.res.st = "err"
    /\ ret.res.err = "UnexpectedEnd"
    /\ IsSuffix(ret.res.buf, ret.buf)

\* decodeAll decodes the types in order from one buffer: value i is what a
\* single decode of type i yields from the place value i-1 stopped at, a
\* successful call returns one value per type, and a call in which a decode
\* fails returns that decode's error and no list.
DecodeAllSequential ==
    /\ \A i \in 1..Len(ret.res.cuts) :
          DecodeCall(Cursors[i], ret.tids[i], RetReg) = OkD(ret.res.out[i], Cursors[i + 1])
    /\ Len(ret.res.out) = Len(ret.res.cuts)
    /\ IF ret.res.st = "ok"
       THEN /\ Len(ret.res.cuts) = Len(ret.tids)
            /\ ret.res.vals = ret.res.out
       ELSE /\ Len(ret.res.cuts) < Len(ret.tids)
            /\ ret.res.vals = <<>>
            /\ LET k == Len(ret.res.cuts) + 1
                   r == DecodeCall(Cursors[k], ret.tids[k], RetReg) IN
               r.st = ret.res.st /\ r.err = ret.res.err

\* The list given to encodeAll has one value per type, each of the form the
\* decoder produces for its type.
CanonicalList ==
    /\ ret.v[1] = "arr"
    /\ Len(ret.v[2]) = Len(ret.tids)
    /\ \A i \in 1..Len(ret.tids) : CanonicalFor(ret.v[2][i], ret.tids[i], RetReg)

\* C13 as claimed: decodeAll is sequential, and decoding what encodeAll
\* returned for the list vs yields a list equal to vs, for every list
\* encodeAll accepts.
C13_DecodeAllRoundTrip ==
    /\ ret.op \in {"decodeAll", "roundtripAll"} => DecodeAllSequential
    /\ ret.op = "roundtripAll"
          => ret.res.st = "ok" /\ SameValue(JsArr(ret.res.vals), ret.v)

\* C13 as amended: decodeAll is sequential, and decoding what encodeAll
\* returned for the list vs yields a list equal to vs when vs has exactly one
\* value per type and each value has the form the decoder produces for its
\* type.
C13_DecodeAllCanonical ==
    /\ ret.op \in {"decodeAll", "roundtripAll"} => DecodeAllSequential
    /\ (ret.op = "roundtripAll" /\ CanonicalList)
          => ret.res.st = "ok" /\ SameValue(JsArr(ret.res.vals), ret.v)

\* C13 witness: a Msg and a u8 went through encodeAll and decodeAll; the u8
\* was decoded from where the Msg stopped.
C13_Witness ==
    /\ ret.op = "roundtripAll"
    /\ ret.tids = <<Name("Msg"), Name("u8")>>
    /\ CanonicalList
    /\ ret.buf = <<1, 0, 0, 0, 1, 8, 104, 105, 5>>
    /\ ret.res.st = "ok"
    /\ ret.res.cuts = <<(<<5>>), (<<>>)>>
    /\ ret.res.vals = <<Msg1, N(5)>>

\* The encodings of elements 0..k-1 of list v against tids[1..k], one after
\* the other.
RECURSIVE EncodingsOf(_, _, _, _)
EncodingsOf(v, tids, reg, k) ==
    IF k = 0 THEN <<>>
    ELSE EncodingsOf(v, tids, reg, k - 1)
            \o EncodeCall(ValueIndex(v, k - 1).val, tids[k], reg).bytes

\* C14: encode and encodeAll return bytes only on success, and then the whole
\* output buffer (for encodeAll the encodings of all listed values, one after
\* the other); a call that fails returns an error and no byte, whatever had
\* been appended to the output buffer before the failure.
C14_NoPartialOutput ==
    ret.op \in {"encode", "encodeAll"} =>
        /\ ret.res.st = "ok" => ret.res.bytes = ret.res.out /\ ret.res.err = ""
        /\ ret.res.st # "ok" => ret.res.bytes = <<>>
        /\ (ret.op = "encodeAll" /\ ret.res.st = "ok")
              => ret.res.bytes = EncodingsOf(ret.v, ret.tids, RetReg, Len(ret.tids))

\* C14 witness: encodeAll of a Msg without its tag and a u8; the id was
\* appended before the tag failed, and nothing is returned.
C14_Witness ==
    /\ ret.op = "encodeAll"
    /\ ret.tids = <<Name("Msg"), Name("u8")>>
    /\ ret.res.st = "err"
    /\ ret.res.out = <<1, 0, 0, 0>>
    /\ ret.res.bytes = <<>>

\* A small non-negative number, in the range of every integer primitive.
SmallNumber(v) == v[1] = "num" /\ v[2] \in 0..127

\* The Compact rule with prims as the integer primitives a Compact may wrap:
\* encode and decode treat a wrapped primitive of prims as a compact integer,
\* a wrapped empty tuple as the empty marker (no byte), and fail with the
\* "number or () for compact" type error on every other wrapped shape, the
\* two directions on the same shapes.
CompactRule(prims) ==
    (/\ ret.op \in {"encode", "decode"}
     /\ RetType.st = "ok"
     /\ RetType.ty[1] = "Compact"
     /\ ResolveType(RetReg, RetType.ty[2], FALSE).st = "ok")
    => LET e == ResolveType(RetReg, RetType.ty[2], FALSE).ty IN
       IF e[1] = "Primitive" /\ e[2] \in prims
       THEN /\ ret.res.err # "Compactable"
            /\ (ret.op = "encode" /\ SmallNumber(ret.v))
                  => ret.res.st = "ok" /\ ret.res.bytes = CompactEncode(ret.v[2])
            /\ (ret.op = "decode" /\ CompactDecode(ret.buf, PrimBytes(e[2])).st = "ok")
                  => ret.res = OkD(JsNum(CompactDecode(ret.buf, PrimBytes(e[2])).n),
                                   CompactDecode(ret.buf, PrimBytes(e[2])).rest)
       ELSE IF e = TupleT(<<>>)
       THEN /\ ret.op = "encode" => ret.res.st = "ok" /\ ret.res.bytes = <<>>
            /\ ret.op = "decode" => ret.res = OkD(JsArr(<<>>), ret.buf)
       ELSE ret.res.st = "err" /\ ret.res.err = "Compactable"

\* C15 as claimed: Compact wraps any integer primitive, signed or unsigned,
\* or the empty tuple, and every other wrapped shape is a type error in both
\* directions.
C15_CompactAnyInteger == CompactRule(IntPrims)

\* C15 as amended: Compact wraps an unsigned integer primitive (u8, u16, u32,
\* u64, u128) or the empty tuple; a signed integer primitive is a type error
\* like bool, str, seq, non-empty tuple, array, enum and struct, in both
\* directions.
C15_CompactUnsigned == CompactRule(UnsignedPrims)

\* C15 witness: 5 against @i32 was refused with the compact type error.
C15_Witness ==
    /\ ret.op = "encode"
    /\ ret.tid = Name("@i32")
    /\ ret.v = N(5)
    /\ ret.res.st = "err"
    /\ ret.res.err = "Compactable"

\* The encodings of the properties of v named by fields[1..k], one after the
\* other.
RECURSIVE FieldEncodings(_, _, _, _)
FieldEncodings(v, fields, reg, k) ==
    IF k = 0 THEN <<>>
    ELSE FieldEncodings(v, fields, reg, k - 1)
            \o EncodeCall(ValueGetProperty(v, fields[k][1]).val, fields[k][2], reg).bytes

\* C16: the bytes encode returns for a struct are its fields' encodings in
\* declaration order and for a tuple its elements' encodings by position,
\* nothing before, between or after them, whatever order the value lists its
\* properties in; decode builds the struct's properties in declaration order
\* and the tuple's elements by position.  {id:1,tag:{Pong:"hi"}} against
\* `Msg={id:u32,tag:<Ping,Pong:str>}` encodes to 01 00 00 00 01 08 68 69 and
\* decodes back.
C16_DeclarationOrder ==
    (ret.op \in {"encode", "decode", "roundtrip"} /\ ret.res.st = "ok" /\ RetType.st = "ok")
    => /\ (ret.op = "encode" /\ RetType.ty[1] = "Struct")
             => ret.res.bytes = FieldEncodings(ret.v, RetType.ty[2], RetReg, Len(RetType.ty[2]))
       /\ (ret.op = "encode" /\ RetType.ty[1] = "Tuple")
             => ret.res.bytes = EncodingsOf(ret.v, RetType.ty[2], RetReg, Len(RetType.ty[2]))
       /\ (ret.op # "encode" /\ RetType.ty[1] = "Struct")
             => /\ ret.res.val[1] = "obj"
                /\ [i \in 1..Len(ret.res.val[2]) |-> ret.res.val[2][i][1]]
                      = [i \in 1..Len(RetType.ty[2]) |-> RetType.ty[2][i][1]]
       /\ (ret.op # "encode" /\ RetType.ty[1] = "Tuple")
             => ret.res.val[1] = "arr" /\ Len(ret.res.val[2]) = Len(RetType.ty[2])
       /\ (/\ ret.tid = Name("Msg")
           /\ RetType.ty = SourceAst("Msg={id:u32,tag:<Ping,Pong:str>}")[1].ty
           /\ ret.op # "decode"
           /\ SameValue(ret.v, Msg1))
             => IF ret.op = "encode" THEN ret.res.bytes = <<1, 0, 0, 0, 1, 8, 104, 105>>
                ELSE ret.res.val = Msg1

\* C16 witness: a Msg listing tag before id was encoded id first and came
\* back from decode with id first.
C16_Witness ==
    /\ ret.op = "roundtrip"
    /\ ret.tid = Name("Msg")
    /\ ret.v = JsObj(<<<<"tag", Obj1("Ping", JsNull)>>, <<"id", N(2)>>>>)
    /\ ret.buf = <<2, 0, 0, 0, 0>>
    /\ ret.res.st = "ok"
    /\ ret.res.val = JsObj(<<<<"id", N(2)>>, <<"tag", Obj1("Ping", JsNull)>>>>)

\* C17: encoding a list against a tuple type fails when the list does not
\* have exactly as many elements as the tuple has types; a longer list is
\* refused, not encoded from its first elements.
C17_TupleArity ==
    (/\ ret.op = "encode"
     /\ RetType.st = "ok"
     /\ RetType.ty[1] = "Tuple"
     /\ ret.v[1] = "arr"
     /\ Len(ret.v[2]) # Len(RetType.ty[2]))
    => ret.res.st = "err" /\ ret.res.bytes = <<>>

\* What the priority rule gives for a Name reference: the registered
\* definition when the name is registered, else the builtin primitive of that
\* name, else, with fallback, the name text parsed as a type expression (an
\* alias it yields resolved without fallback), else the unknown-type error.
ByPriority(reg, tid, fallback) ==
    IF tid.info[2] \in DOMAIN reg.lookup THEN GetType(reg, tid)
    ELSE IF IsSome(TypePrimitive(tid.info[2])) THEN OkT(TypePrimitive(tid.info[2])[1])
    ELSE IF fallback THEN ResolveParsed(reg, ParseType(tid.info[2]))
    ELSE ErrT("UnknownType")

\* C18: resolving a Name reference returns (a shape or an error) and returns
\* what the priority rule gives; a registered name wins over the builtin
\* primitive of the same name.
C18_NamePriority ==
    (ret.op = "resolve" /\ ret.tid.info[1] = "Name")
    => /\ ret.res.st \in {"ok", "err"}
       /\ ret.res = ByPriority(RetReg, ret.tid, ret.fallback)
       /\ (RetReg.types = SourceAst("u32=u8") /\ ret.tid = Name("u32"))
             => ret.res = OkT(Primitive("u8"))

\* C19: no call aborts: while an encode holds its shared access to a
\* registry no exclusive access to that registry is requested, also when a
\* getter of the value being encoded calls appendTypes, and every encode ends
\* with bytes or a returned error.
C19_NeverAborts ==
    /\ ret.op = "encode" => ret.res.st \in {"ok", "err"}
    /\ ret.op \in {"encode", "encoding"} => ~(ret.shared # 0 /\ ret.exclusive = ret.shared)

\* The grammar `typedef {';' typedef} [';']` over statements and `;` tokens:
\* after dropping one trailing `;`, statements at the odd positions and `;`
\* at the even ones, ending with a statement.
GrammarAccepts(items) ==
    LET n == Len(items)
        m == IF n > 0 /\ items[n] = ";" THEN n - 1 ELSE n IN
    /\ m >= 1
    /\ m % 2 = 1
    /\ \A i \in 1..m : (i % 2 = 0) <=> (items[i] = ";")

\* C20: parseTypes and appendTypes accept a text of several statements
\* exactly when it follows `typedef {';' typedef} [';']`: statements with no
\* `;` between them are a parse error, one trailing `;` is accepted.
C20_TopLevelGrammar ==
    (ret.op \in {"parseTypes", "appendTypes"} /\ ret.src \in TopTexts)
    => (ret.ok <=> GrammarAccepts(TopItems(ret.src)))

\* The discriminant get_variant_by_name hands encode for variant i.
Emitted(variants, i) == GetVariantByName(variants, variants[i][1])[1][3]

\* The enum shapes defined at the top level of the registries.
EnumsDefined ==
    {heap[h].types[i].ty[2] :
        <<h, i>> \in {p \in (DOMAIN heap) \X (1..MaxDefs + 1) :
                        /\ p[2] <= Len(heap[p[1]].types)
                        /\ heap[p[1]].types[p[2]].ty[1] = "Enum"}}

\* C22: in every registered enum, two distinct variants whose discriminants
\* fit in a byte are encoded with different bytes, and the decoder's lookup
\* of the byte encode emits for a variant gives that variant's name and
\* payload type.
C22_TagsUnambiguous ==
    \A vs \in EnumsDefined :
        \A i, j \in 1..Len(vs) :
            (Emitted(vs, i) <= 255 /\ Emitted(vs, j) <= 255)
            => /\ i # j => Emitted(vs, i) # Emitted(vs, j)
               /\ GetVariantByIndex(vs, Emitted(vs, i)) = Some(<<vs[i][1], vs[i][2]>>)

\* The index the lookup holds for name n after typelist was appended to reg:
\* that of the last definition of the list called n, else the one it had.
LookupAfter(reg, typelist, n) ==
    LET hits == {i \in 1..Len(typelist) : typelist[i].name.name = Some(n)} IN
    IF hits # {} THEN Len(reg.types) + (CHOOSE i \in hits : \A j \in hits : j <= i) - 1
    ELSE reg.lookup[n]

\* C24: a step that is an appendTypes call on handle h either fails, and
\* then leaves every registry as it was, or appends the whole definition
\* list of the text to registry h in source order, points each of its names
\* at its last definition, and leaves the other registries as they were.
C24_AppendAllOrNothing ==
    [][(ret'.op = "appendTypes")
       => IF ~ret'.ok THEN heap' = heap /\ ~ParseTypesSrc(ret'.src).ok
          ELSE LET h == ret'.h
                   ast == ParseTypesSrc(ret'.src).ast IN
               /\ ParseTypesSrc(ret'.src).ok
               /\ DOMAIN heap' = DOMAIN heap
               /\ \A g \in DOMAIN heap : g # h => heap'[g] = heap[g]
               /\ heap'[h].types = heap[h].types \o ast
               /\ DOMAIN heap'[h].lookup
                     = DOMAIN heap[h].lookup
                          \cup {ast[i].name.name[1] : i \in {k \in 1..Len(ast) :
                                                               IsSome(ast[k].name.name)}}
               /\ \A n \in DOMAIN heap'[h].lookup :
                     heap'[h].lookup[n] = LookupAfter(heap[h], ast, n)]_vars

\* C24 witness: appendTypes of a text whose first statement is well formed
\* and whose rest is not has failed, and the registry holds what it held.
C24_Witness ==
    /\ ret.op = "appendTypes"
    /\ ~ret.ok
    /\ ret.src = "A=A;;B=A"
    /\ RetReg.types = SourceAst("A=A") \o SourceAst("B=A")

\* The plain list of the numbers of a byte list.
AsNumbers(b) == JsArr([i \in 1..Len(b) |-> JsNum(b[i])])

\* What the element-wise arm of decode_valude gives for the sequence or array
\* of u8 that ret.tid names.
ElementWise ==
    IF RetType.ty[1] = "Seq"
    THEN DecodeSeqElems(ret.buf, RetType.ty[2], RetReg, 0, CompactDecode(ret.buf, 4))
    ELSE DecodeElems(ret.buf, RetType.ty[2], RetReg, 1, RetType.ty[3], <<>>)

\* C26: against a sequence of u8, or an array of u8 of the buffer's length, a
\* byte buffer encodes to the bytes the list of its numbers encodes to
\* element by element; decode's byte fast path succeeds exactly when the
\* element-wise decode does, leaves the cursor where it leaves it, and yields
\* the same bytes.
C26_FastPathAgrees ==
    (/\ ret.op \in {"encode", "decode", "roundtrip"}
     /\ RetType.st = "ok"
     /\ RetType.ty[1] \in {"Seq", "Array"}
     /\ RetElem = OkT(Primitive("u8")))
    => /\ (/\ ret.op = "encode"
           /\ ret.v[1] = "u8a"
           /\ RetType.ty[1] = "Array" => Len(ret.v[2]) = RetType.ty[3])
             => /\ ret.res.st = "ok"
                /\ ret.res = EncodeCall(AsNumbers(ret.v[2]), ret.tid, RetReg)
       /\ ret.op # "encode"
             => /\ ret.res.st = ElementWise.st
                /\ ret.res.st = "ok"
                      => /\ ret.res.buf = ElementWise.buf
                         /\ ret.res.val[1] = "u8a"
                         /\ ElementWise.val = AsNumbers(ret.res.val[2])

\* C26 witness: the buffer 01 02 was encoded against [u8] to 08 01 02, the
\* bytes the list [1, 2] encodes to.
C26_Witness ==
    /\ ret.op = "encode"
    /\ ret.tid = Name("[u8]")
    /\ ret.v = JsU8a(<<1, 2>>)
    /\ ret.res.bytes = <<8, 1, 2>>
    /\ EncodeCall(JsArr(<<N(1), N(2)>>), ret.tid, RetReg).bytes = <<8, 1, 2>>

\* C23: every decode returns, with a value or with an error.
C23_DecodeTerminates ==
    ret.op = "decode" => ret.res.st \in {"ok", "err"}

RECURSIVE IdHasParamWithArgs(_, _), TypeHasParamWithArgs(_, _)

\* An occurrence of one of params in id carries type arguments of its own.
IdHasParamWithArgs(params, id) ==
    CASE id.info[1] = "Name" ->
            IF \E k \in 1..Len(params) : params[k] = id.info[2]
            THEN Len(id.type_args) > 0
            ELSE \E i \in 1..Len(id.type_args) : IdHasParamWithArgs(params, id.type_args[i])
      [] id.info[1] = "Num" -> FALSE
      [] id.info[1] = "Type" -> TypeHasParamWithArgs(params, id.info[2])

TypeHasParamWithArgs(params, ty) ==
    CASE ty[1] = "Primitive" -> FALSE
      [] ty[1] \in {"Compact", "Seq", "Array", "Alias"} -> IdHasParamWithArgs(params, ty[2])
      [] ty[1] = "Tuple" -> \E i \in 1..Len(ty[2]) : IdHasParamWithArgs(params, ty[2][i])
      [] ty[1] = "Enum" ->
            \E i \in 1..Len(ty[2]) :
                IsSome(ty[2][i][2]) /\ IdHasParamWithArgs(params, ty[2][i][2][1])
      [] ty[1] = "Struct" -> \E i \in 1..Len(ty[2]) : IdHasParamWithArgs(params, ty[2][i][2])

RECURSIVE SubstId(_, _, _), SubstType(_, _, _)

\* id with every occurrence of params[k] replaced by args[k] as it stands,
\* all at once: what replaces an occurrence is not looked into again.
SubstId(params, args, id) ==
    CASE id.info[1] = "Name" ->
            IF \E k \in 1..Len(params) : params[k] = id.info[2]
            THEN args[CHOOSE k \in 1..Len(params) : params[k] = id.info[2]]
            ELSE [id EXCEPT !.type_args =
                     [i \in 1..Len(id.type_args) |-> SubstId(params, args, id.type_args[i])]]
      [] id.info[1] = "Num" -> id
      [] id.info[1] = "Type" -> Inline(SubstType(params, args, id.info[2]))

SubstType(params, args, ty) ==
    CASE ty[1] = "Primitive" -> ty
      [] ty[1] \in {"Compact", "Seq", "Alias"} -> <<ty[1], SubstId(params, args, ty[2])>>
      [] ty[1] = "Array" -> <<ty[1], SubstId(params, args, ty[2]), ty[3]>>
      [] ty[1] = "Tuple" ->
            <<ty[1], [i \in 1..Len(ty[2]) |-> SubstId(params, args, ty[2][i])]>>
      [] ty[1] = "Enum" ->
            <<ty[1], [i \in 1..Len(ty[2]) |->
                        <<ty[2][i][1],
                          IF IsSome(ty[2][i][2])
                          THEN Some(SubstId(params, args, ty[2][i][2][1])) ELSE None,
                          ty[2][i][3]>>]>>
      [] ty[1] = "Struct" ->
            <<ty[1], [i \in 1..Len(ty[2]) |->
                        <<ty[2][i][1], SubstId(params, args, ty[2][i][2])>>]>>

\* C27: instantiating a registered generic definition with as many arguments
\* as it has parameters gives its shape with every parameter occurrence
\* replaced by the argument supplied for it, all occurrences at once and the
\* arguments left as supplied, or an error when a parameter occurrence
\* carries type arguments; the registered definition stays as it was.
C27_Substitution ==
    (/\ ret.op = "resolve"
     /\ ret.tid.info[1] = "Name"
     /\ IsSome(SelectedDef(RetReg, ret.tid))
     /\ Len(ret.tid.type_args) > 0
     /\ Len(SelectedDef(RetReg, ret.tid)[1].name.type_params) = Len(ret.tid.type_args))
    => LET def == SelectedDef(RetReg, ret.tid)[1] IN
       IF TypeHasParamWithArgs(def.name.type_params, def.ty)
       THEN ret.shallow.st = "err"
       ELSE ret.shallow = OkT(SubstType(def.name.type_params, ret.tid.type_args, def.ty))

\* The names a text defines, and the last definition a text gives a name.
DefinedNames(ast) == {ast[i].name.name[1] : i \in {k \in DOMAIN ast : IsSome(ast[k].name.name)}}
LastDefinition(ast, n) ==
    ast[CHOOSE i \in DOMAIN ast :
          /\ ast[i].name.name = Some(n)
          /\ \A k \in DOMAIN ast : ast[k].name.name = Some(n) => k <= i]

\* The registry a call makes of a text or of undefined.
FreshRegistry(arg) ==
    IF arg = JsUndefined THEN EmptyRegistry
    ELSE RegistryAppend(EmptyRegistry, SourceAst(arg[2]))

\* C25: a handle denotes one registry for all its calls: when appendTypes
\* through a handle returns successfully, the registry of that handle selects,
\* for every name the text defines, the text's last definition of it, and a
\* decode through the handle reads the registry as the appends left it; a
\* registry given as a text (or left out) is built anew from the text by the
\* call, so appendTypes on it changes no registry of any handle and a decode
\* on it answers as against the text alone.
C25_HandlesShareTextsDoNot ==
    [][/\ (ret'.op = "appendTypes" /\ ret'.ok) =>
            /\ Len(heap') = Len(heap)
            /\ \A n \in DefinedNames(SourceAst(ret'.src)) :
                  SelectedDef(heap'[ret'.h], Name(n)) = Some(LastDefinition(SourceAst(ret'.src), n))
       /\ ret'.op = "decode" =>
            /\ heap' = heap
            /\ ret'.res = DecodeValue(ret'.buf, ret'.tid, heap[ret'.h], 0)
       /\ ret'.op = "appendTypesText" => heap' = heap
       /\ ret'.op = "decodeText" =>
            /\ heap' = heap
            /\ ret'.res = IF ret'.arg[1] = "str" /\ ret'.arg[2] \in BadSources
                           THEN ErrD(ret'.buf, "Parse")
                           ELSE DecodeValue(ret'.buf, ret'.tid, FreshRegistry(ret'.arg), 0)]_vars

\* A decode through the handle of `A=B;B=u32` that reads `u32` as one byte,
\* as the `u32=u8` appended through the handle has it.
C25_Witness ==
    /\ ret.op = "decode"
    /\ ret.tid = Name("u32")
    /\ ret.buf = <<1, 0, 0, 0>>
    /\ ret.res.st = "ok"
    /\ ret.res.buf = <<0, 0, 0>>
    /\ Len(heap[ret.h].types) = 3

\* C21: a text of `name=type` definitions with `;` between them parses, and
\* gives one definition per `name=type` in the order of the text, each with
\* its name and with the type its leading delimiter names: `[T;n]` an array
\* of n T, `[T]` a sequence, `(T1,..,Tk)` a tuple, an identifier or a number
\* alone an alias.
C21_OneDefPerStatement ==
    (ret.op = "parsed" /\ ret.defs # <<>>) =>
        /\ ret.res.ok
        /\ ret.res.ast = [i \in 1..Len(ret.defs) |-> Def(ret.defs[i].name, <<>>, ret.defs[i].ty)]

\* `foo=[u8;32];bar=(u8,foo)` parsed to foo, an array of 32 u8, then bar, the
\* tuple of u8 and foo.
C21_Witness ==
    /\ ret.op = "parsed"
    /\ ret.text = <<"f", "o", "o", "=", "[", "u", "8", ";", "3", "2", "]", ";", "b", "a", "r", "=", "(", "u", "8", ",", "f", "o", "o", ")">>
    /\ ret.res.ok
    /\ ret.res.ast = <<Def("foo", <<>>, ArrayT(Name("u8"), 32)),
                       Def("bar", <<>>, TupleT(<<Name("u8"), Name("foo")>>))>>
====
